---- MODULE Spec2Model ----
(***************************************************************************)
(* Batched media analysis and dataset caching of the Ad-McQuery backend:   *)
(* backend/batch_analysis.py (partitioning, per-batch worker, response     *)
(* reconciliation, merge) and backend/main.py (process_zip_file).          *)
(*                                                                         *)
(* Python dicts are functions from strings to values; a dict whose         *)
(* iteration order matters is a record [keys, val].  Response text is a    *)
(* sequence of tokens (fence marker, language tag, whitespace, prose, one  *)
(* JSON document), on which startswith / replace / strip / json.loads act  *)
(* as they do on the characters.                                           *)
(***************************************************************************)
EXTENDS Integers, Sequences, FiniteSets, TLC

\* ------------------------------------------------------------------ bounds
MaxParseFiles == 3
MaxInputFiles == 3
MaxBatchSize == 2
MaxFiles == 3
MaxCalls == 2
MaxOverlap == 2
MaxOverlapFiles == 2
MaxInFlight == 2
MaxIndexFiles == 3
MaxIndexCalls == 2
MaxTopK == 2

\* ----------------------------------------------------------------- strings
Range(s) == {s[i] : i \in 1..Len(s)}

Min(a, b) == IF a <= b THEN a ELSE b

Max(a, b) == IF a >= b THEN a ELSE b

\* str.startswith
StartsWith(s, p) == Len(s) >= Len(p) /\ SubSeq(s, 1, Len(p)) = p

\* str.endswith
EndsWith(s, p) == Len(s) >= Len(p) /\ SubSeq(s, Len(s) - Len(p) + 1, Len(s)) = p

\* p in s, for two strings
Contains(s, p) == \E i \in 1..(Len(s) - Len(p) + 1) : SubSeq(s, i, i + Len(p) - 1) = p

UpperToLower ==
    [A |-> "a", B |-> "b", C |-> "c", D |-> "d", E |-> "e", F |-> "f", G |-> "g",
     H |-> "h", I |-> "i", J |-> "j", K |-> "k", L |-> "l", M |-> "m", N |-> "n",
     O |-> "o", P |-> "p", Q |-> "q", R |-> "r", S |-> "s", T |-> "t", U |-> "u",
     V |-> "v", W |-> "w", X |-> "x", Y |-> "y", Z |-> "z"]

RECURSIVE Lower(_)
\* str.lower
Lower(s) ==
    IF Len(s) = 0 THEN s
    ELSE LET c == SubSeq(s, 1, 1)
         IN (IF c \in DOMAIN UpperToLower THEN UpperToLower[c] ELSE c)
                \o Lower(SubSeq(s, 2, Len(s)))

DecimalDigits == <<"0", "1", "2", "3", "4", "5", "6", "7", "8", "9">>

RECURSIVE Str(_)
\* str(i) of a non-negative int
Str(i) ==
    IF i < 10 THEN DecimalDigits[i + 1]
    ELSE Str(i \div 10) \o DecimalDigits[(i % 10) + 1]

\* ------------------------------------------------------------------- dicts
EmptyDict == <<>>

\* {**a, **b}: the keys of both, b's value on a key of both
DictMerge(a, b) == b @@ a

\* {k: v for k, v in d.items() if k != key}
DictWithout(d, key) == [k \in DOMAIN d \ {key} |-> d[k]]

\* ----------------------------------------------------------- JSON documents
JObject(d) == [t |-> "object", v |-> d]

JNull == [t |-> "null"]

JNumber == [t |-> "number"]

JArray(s) == [t |-> "array", v |-> s]

JString(s) == [t |-> "string", v |-> s]

\* -------------------------------------------------------------- text tokens
TFence == [tok |-> "fence"]

TTag == [tok |-> "json"]

TWs == [tok |-> "ws"]

TJunk == [tok |-> "junk"]

TDoc(j) == [tok |-> "doc", json |-> j]

RECURSIVE ReplaceFenceJson(_)
\* text.replace(fence + 'json', '')
ReplaceFenceJson(text) ==
    IF Len(text) = 0 THEN text
    ELSE IF Len(text) >= 2 /\ text[1].tok = "fence" /\ text[2].tok = "json"
         THEN ReplaceFenceJson(SubSeq(text, 3, Len(text)))
         ELSE <<text[1]>> \o ReplaceFenceJson(Tail(text))

\* text.replace(fence, '')
ReplaceFence(text) == SelectSeq(text, LAMBDA tk : tk.tok # "fence")

RECURSIVE LStrip(_)
LStrip(text) ==
    IF Len(text) > 0 /\ text[1].tok = "ws" THEN LStrip(Tail(text)) ELSE text

RECURSIVE RStrip(_)
RStrip(text) ==
    IF Len(text) > 0 /\ text[Len(text)].tok = "ws"
    THEN RStrip(SubSeq(text, 1, Len(text) - 1))
    ELSE text

\* text.strip()
Strip(text) == LStrip(RStrip(text))

\* text.startswith(fence + 'json')
StartsWithFenceJson(text) ==
    Len(text) >= 2 /\ text[1].tok = "fence" /\ text[2].tok = "json"

\* json.loads: whitespace around one JSON document is accepted, anything else
\* is a JSONDecodeError
JsonLoads(text) ==
    LET body == Strip(text)
    IN IF Len(body) = 1 /\ body[1].tok = "doc"
       THEN [ok |-> TRUE, value |-> body[1].json]
       ELSE [ok |-> FALSE]

\* ---------------------------------------------------- parse_batch_response
Returned(v, printed) == [raised |-> FALSE, value |-> v, printed |-> printed]

Raised(exc) == [raised |-> TRUE, exc |-> exc]

\* key in batch_analysis
PyIn(key, ba) ==
    CASE ba.t = "object" -> key \in DOMAIN ba.v
      [] ba.t = "array" -> key \in Range(ba.v)
      [] ba.t = "string" -> Contains(ba.v, key)
      [] OTHER -> FALSE

\* whether `key in batch_analysis` is defined at all
PyIterable(ba) == ba.t \in {"object", "array", "string"}

CleanResponseTagOnly(text) ==
    IF StartsWithFenceJson(text) THEN Strip(ReplaceFenceJson(text)) ELSE text

\* lines 193-194: the clean-up of the response text
CleanResponse(text) ==
    IF StartsWithFenceJson(text)
    THEN Strip(ReplaceFence(ReplaceFenceJson(text)))
    ELSE text

IndexKeyOneBased(i) == Str(i + 1)

\* line 201: index_key = str(i)
IndexKey(i) == Str(i)

RECURSIVE MapIndices(_, _, _, _)
\* lines 199-207: the loop over enumerate(expected_filenames); i counts from 0
MapIndices(ba, filenames, i, result) ==
    IF i >= Len(filenames) THEN Returned(result, "")
    ELSE IF ~PyIterable(ba) THEN Raised("TypeError")
    ELSE IF PyIn(IndexKey(i), ba)
         THEN IF ba.t = "object"
              THEN MapIndices(ba, filenames, i + 1,
                              (filenames[i + 1] :> ba.v[IndexKey(i)]) @@ result)
              ELSE Raised("TypeError")
         ELSE MapIndices(ba, filenames, i + 1, result)

ParseErrorPropagates(text, filenames) == Raised("JSONDecodeError")

\* lines 209-212: except json.JSONDecodeError
ParseErrorHandler(text, filenames) ==
    Returned(EmptyDict, "Error parsing Gemini response")

parse_batch_response(response_text, expected_filenames) ==
    LET loaded == JsonLoads(CleanResponse(response_text))
    IN IF loaded.ok
       THEN MapIndices(loaded.value, expected_filenames, 0, EmptyDict)
       ELSE ParseErrorHandler(response_text, expected_filenames)

\* ------------------------------------------------ response texts, by wrapping
ParseNames == <<"f0.mp4", "f1.mp4", "f2.mp4", "f3.mp4">>

\* Two distinguishable per-file analyses and an entry that is no object.
EntryA == JObject([targeting_type |-> "retargeting"])

EntryB == JObject([targeting_type |-> "first_impression"])

ParseKeys == {"0", "1", "2", "video_0"}

ParseObjects ==
    UNION {[ks -> {EntryA, EntryB}] : ks \in SUBSET ParseKeys}

ParseDocs ==
    {JObject(d) : d \in ParseObjects}
        \cup {JNull, JNumber, JArray(<<>>), JArray(<<"0">>),
              JString("n/a"), JString("10")}

\* The wrappings of one JSON document a response can come in.
Plain(j) == <<TDoc(j)>>

Padded(j) == <<TWs, TDoc(j), TWs>>

FencedJson(j) == <<TFence, TTag, TWs, TDoc(j), TWs, TFence>>

FencedJsonOpen(j) == <<TFence, TTag, TWs, TDoc(j)>>

FencedBare(j) == <<TFence, TWs, TDoc(j), TWs, TFence>>

WsFencedJson(j) == <<TWs>> \o FencedJson(j)

WsFencedBare(j) == <<TWs>> \o FencedBare(j)

Prose(j) == <<TJunk, TWs, TDoc(j)>>

Wrappings(j) ==
    {Plain(j), Padded(j), FencedJson(j), FencedJsonOpen(j), FencedBare(j),
     WsFencedJson(j), WsFencedBare(j), Prose(j)}

ParseTexts ==
    UNION {Wrappings(j) : j \in ParseDocs} \cup {<<>>, <<TJunk>>, <<TFence, TTag>>}

NotParsed == [raised |-> FALSE, value |-> EmptyDict, printed |-> "not called"]

\* --------------------------------------------------------------- variables
VARIABLES
    ptext,      \* reconciler: the response text handed to parse_batch_response
    pfiles,     \* reconciler: expected_filenames
    pout,       \* reconciler: what the call returned or raised
    orch,       \* per media kind: the running batch_analyze_* call
    futures,    \* per media kind: one future per submitted batch
    request,    \* the arguments of a batch_analyze_* call about to be made
    datasetDir, \* datasets/<name>: whether it exists, and the files in it
    effects,    \* what the running (or last) call did to the files, in order
    artifact,   \* datasets/<name>/<name>-analysis.json
    calls,      \* process_zip_file calls made so far
    pc,         \* where the running process_zip_file call is
    archive,    \* the members of the zip file of the running (or last) call
    extracted,  \* whether that call extracted the zip file itself
    results,    \* the call's results dict
    ret,        \* what the last call returned or raised
    writes,     \* how many times the analysis file has been opened for writing
    procs,      \* overlapping process_zip_file calls on the one dataset
    embeddings, \* AdSearchEngine.embeddings: one vector per indexed entry
    metadata,   \* AdSearchEngine.metadata: one entry per indexed record
    indexed,    \* AdSearchEngine.indexed
    analysis_results, \* the argument of the last index_analysis_results call
    indexRet,   \* whether that call returned or raised
    indexCalls, \* index_analysis_results calls made so far
    searchArgs, \* the arguments of the last search call since then
    searchRet,  \* what that search call returned or raised
    filterArgs, \* the arguments of the last search_with_filters call since then
    filterRet,  \* what that search_with_filters call returned or raised
    statsRet,   \* what the last get_stats call since then returned or raised
    projInput,  \* the argument of the last create_embedding_text call
    projected   \* what that call returned or raised

vars == <<ptext, pfiles, pout, orch, futures, request,
          datasetDir, effects, artifact, calls, pc, archive, extracted, results, ret,
          writes, procs,
          embeddings, metadata, indexed, analysis_results, indexRet,
          indexCalls, searchArgs, searchRet, filterArgs, filterRet, statsRet,
          projInput, projected>>

pipeVars == <<datasetDir, effects, artifact, calls, pc, archive, extracted, results, ret,
              writes, procs>>

\* The variables of one process_zip_file call after another.
callVars == <<calls, pc, archive, extracted, results, ret, effects>>

parseVars == <<ptext, pfiles, pout>>

batchVars == <<orch, futures, request>>

\* The fields of the one AdSearchEngine.
engineVars == <<embeddings, metadata, indexed>>

\* What is kept of the last search_with_filters and get_stats calls.
queryVars == <<filterArgs, filterRet, statsRet>>

\* What is kept of the last direct create_embedding_text call.
projVars == <<projInput, projected>>

searchVars ==
    <<engineVars, analysis_results, indexRet, indexCalls, searchArgs, searchRet,
      queryVars, projVars>>

\* ------------------------------------------------------ preprocessing records
\* image_preprocess.extract_image_features; a value is written as Python prints
\* it, and line 30 makes the resolution a tuple
ImageFeatures ==
    [metadata |-> "{'resolution': (640, 480)}", contrast |-> "png-contrast",
     ocr |-> "png-ocr"]

\* video_preprocessing.preprocess_video
VideoFeatures ==
    [resolution |-> "1920x1080", aspect_ratio |-> "16:9", length |-> "30",
     whisper_transcript |-> "speech"]

\* main.py lines 201, 214: the path of the compressed copy is added to the record
WithTempPath(rec) == ("_temp_file_path" :> "compressed-copy") @@ rec

\* main.py lines 224-227
ErrorRecord == [error |-> "preprocessing failed", status |-> "failed"]

IsImageName(k) == EndsWith(Lower(k), ".png")

IsVideoName(k) == EndsWith(Lower(k), ".mp4")

\* An ordered dict: the keys in insertion order, and the value of each.
EmptyOD == [keys |-> <<>>, val |-> EmptyDict]

\* ------------------------------------------------- batch_analyze_* : partition
EligibleByName(kind, k, rec) ==
    IF kind = "video"
    THEN IsVideoName(k) /\ "_temp_file_path" \in DOMAIN rec
    ELSE IsImageName(k)

\* batch_analysis.py lines 31-32 and 231-232: the filter of each media kind
Eligible(kind, k, rec) ==
    IF kind = "video"
    THEN IsVideoName(k) /\ "error" \notin DOMAIN rec /\ "_temp_file_path" \in DOMAIN rec
    ELSE IsImageName(k) /\ "error" \notin DOMAIN rec

\* list(video_files.keys()): the eligible keys in the input's insertion order
EligibleFilenames(kind, pre) ==
    SelectSeq(pre.keys, LAMBDA k : Eligible(kind, k, pre.val[k]))

RECURSIVE PyRange(_, _, _)
\* range(start, stop, step), step > 0
PyRange(start, stop, step) ==
    IF start >= stop THEN <<>> ELSE <<start>> \o PyRange(start + step, stop, step)

PySliceShort(s, lo, hi) == SubSeq(s, lo + 1, Min(hi - 1, Len(s)))

\* s[lo:hi] for 0 <= lo <= hi
PySlice(s, lo, hi) == SubSeq(s, lo + 1, Min(hi, Len(s)))

\* A partition into as many batches, dealt out in turn instead of sliced.
MakeBatchesDealt(filenames, batch_size) ==
    LET nb == (Len(filenames) + batch_size - 1) \div batch_size
    IN [j \in 1..nb |->
            [num |-> j,
             filenames |->
                 [m \in 1..Cardinality({k \in 1..Len(filenames) : (k - 1) % nb = j - 1}) |->
                     filenames[(m - 1) * nb + j]]]]

\* lines 39-44 and 239-244: (batch number, batch_filenames); batch_data is the
\* input restricted to batch_filenames
MakeBatches(filenames, batch_size) ==
    LET starts == PyRange(0, Len(filenames), batch_size)
    IN [j \in 1..Len(starts) |->
            [num |-> starts[j] \div batch_size + 1,
             filenames |-> PySlice(filenames, starts[j], starts[j] + batch_size)]]

RECURSIVE DictOver(_, _, _)
\* a dict comprehension {fn: files[fn] for fn in filenames}
DictOver(filenames, files, acc) ==
    IF Len(filenames) = 0 THEN acc
    ELSE DictOver(Tail(filenames), files,
                  [keys |-> IF Head(filenames) \in Range(acc.keys) THEN acc.keys
                            ELSE Append(acc.keys, Head(filenames)),
                   val |-> (Head(filenames) :> files[Head(filenames)]) @@ acc.val])

\* lines 43 and 243: batch_data = {fn: video_files[fn] for fn in batch_filenames}
BatchData(pre, batch_filenames) == DictOver(batch_filenames, pre.val, EmptyOD)

\* create_batch_prompt lines 151-153 and create_image_batch_prompt line 312:
\* the items of the prompt, in order, are the keys of batch_data
PromptItems(batch_data) == batch_data.keys

\* lines 49 and 91 (249 and 266): the filename list handed to
\* parse_batch_response is the batch's batch_filenames
ExpectedFilenames(batch_info) == batch_info.filenames

\* ---------------------------------------------------- the per-batch worker
\* lines 98, 105, 122: videos drop the temp path; images (lines 272, 277, 291) do not
CleanPreprocessing(kind, rec) ==
    IF kind = "video" THEN DictWithout(rec, "_temp_file_path") ELSE rec

\* lines 99-102 and 271-274: {**preprocessing, **analysis}
MergedRecord(kind, rec, analysis) ==
    DictMerge(CleanPreprocessing(kind, rec), analysis)

MissingAnalysis == "Failed to get Gemini analysis"

\* lines 106-109 and 276-279
MissingRecord(kind, rec) ==
    DictMerge(CleanPreprocessing(kind, rec), [analysis_error |-> MissingAnalysis])

\* the dict unpacking of an entry raises TypeError unless the entry is a mapping
IsMapping(entry) == entry.t = "object"

\* lines 94-109 and 268-279: the merge loop; an exception anywhere in it leaves
\* the loop for the except branch
MergeLoop(kind, filenames, pre, batch_analysis) ==
    IF \E f \in Range(filenames) :
            f \in DOMAIN batch_analysis /\ ~IsMapping(batch_analysis[f])
    THEN Raised("TypeError")
    ELSE Returned([f \in Range(filenames) |->
                      IF f \in DOMAIN batch_analysis
                      THEN MergedRecord(kind, pre.val[f], batch_analysis[f].v)
                      ELSE MissingRecord(kind, pre.val[f])], "")

BatchFailedOnlyFirst(kind, filenames, pre, exc) ==
    [f \in {filenames[1]} |->
        DictMerge(CleanPreprocessing(kind, pre.val[f]), [analysis_error |-> exc])]

\* lines 115-127 and 285-294: except Exception, every file of the batch is marked
BatchFailed(kind, filenames, pre, exc) ==
    [f \in Range(filenames) |->
        DictMerge(CleanPreprocessing(kind, pre.val[f]), [analysis_error |-> exc])]

\* What the collaborators do during one batch: the model handle, the prompt
\* and the model call may raise, and otherwise the call returns a text.
NoFailure == "none"

\* lines 55-113 and 255-283: the body of the try block
TryBody(kind, filenames, pre, env) ==
    IF env.fail \in {"prompt", "call"} THEN Raised(env.fail)
    ELSE LET parsed == parse_batch_response(env.text, filenames)
         IN IF parsed.raised THEN parsed
            ELSE MergeLoop(kind, filenames, pre, parsed.value)

\* lines 50 and 250: the model handle is created before the try block
HandleRaisesOutsideTry(env) == env.fail = "handle"

\* process_batch / process_image_batch: the outcome of the future
process_batch(kind, filenames, pre, env) ==
    IF HandleRaisesOutsideTry(env) THEN Raised("handle")
    ELSE LET body == TryBody(kind, filenames, pre, env)
         IN IF body.raised
            THEN Returned(BatchFailed(kind, filenames, pre, body.exc), "")
            ELSE body

\* ------------------------------------------------------- the orchestrator
Kinds == {"image", "video"}

NoRequest == [kind |-> "none", pre |-> EmptyOD, batch_size |-> 0]

IdleOrch ==
    [state |-> "idle", input |-> EmptyOD, batch_size |-> 0, batches |-> <<>>,
     results |-> EmptyDict]

InFlight ==
    [state |-> "inflight",
     env |-> [fail |-> NoFailure, text |-> <<>>, unreadable |-> {}]]

\* lines 28-46, 130-131 (228-246, 297-298): filter, partition, submit every batch
StartOrch(kind, pre, batch_size) ==
    LET filenames == EligibleFilenames(kind, pre)
    IN IF Len(filenames) = 0
       THEN [IdleOrch EXCEPT !.state = "returned", !.input = pre,
                             !.batch_size = batch_size]
       ELSE [state |-> "collecting", input |-> pre, batch_size |-> batch_size,
             batches |-> MakeBatches(filenames, batch_size), results |-> EmptyDict]

StartFutures(o) == [j \in 1..Len(o.batches) |-> InFlight]

\* The analysis a model may give for one file, and what it may put at one index.
AnalysisFull ==
    [targeting_type |-> "retargeting", resolution |-> "resolution per model",
     metadata |-> "metadata per model"]

Entries == {JObject(AnalysisFull), JObject(EmptyDict), JNull}

BatchObjects(n) ==
    UNION {[ks -> Entries] : ks \in SUBSET {Str(i) : i \in 0..(n - 1)}}

BatchTexts(n) ==
    {<<TDoc(JObject(d))>> : d \in BatchObjects(n)}
        \cup {<<TFence, TTag, TWs,
                TDoc(JObject([k \in {Str(i) : i \in 0..(n - 1)} |-> JObject(AnalysisFull)])),
                TWs, TFence>>,
              <<TJunk>>, <<TDoc(JNumber)>>}

\* create_batch_prompt lines 167 and 174-182: the key the prompt tells the model
\* to use for item i is str(i); create_image_batch_prompt lines 328-348: the
\* format example is keyed by the first filename, to be repeated for all images
PromptKey(kind, filenames, i) ==
    IF kind = "video" THEN Str(i) ELSE filenames[i + 1]

\* The response of a model that follows the prompt exactly.
PromptFollowingText(kind, filenames) ==
    Plain(JObject([k \in {PromptKey(kind, filenames, i) : i \in 0..(Len(filenames) - 1)} |->
                      JObject(AnalysisFull)]))

\* What the collaborators may do during one batch; unreadable holds the files
\* of the batch whose compressed copy cannot be opened or read.
BatchEnvs(kind, filenames) ==
    {[fail |-> f, text |-> <<>>, unreadable |-> {}] : f \in {"handle", "prompt", "call"}}
        \cup {[fail |-> NoFailure, text |-> t, unreadable |-> {}] :
                  t \in BatchTexts(Len(filenames))
                          \cup {PromptFollowingText(kind, filenames)}}
        \cup {[fail |-> NoFailure, text |-> PromptFollowingText(kind, filenames),
               unreadable |-> {filenames[1]}]}

\* lines 59-88: content_parts after the prompt.  For a video batch the loop
\* over batch_filenames appends one part per file and skips, with a warning, a
\* file whose copy cannot be read; lines 257-264: an image batch sends the
\* prompt alone.  A part is written as the name of the file it holds.
ContentParts(kind, batch_filenames, env) ==
    IF kind = "video"
    THEN SelectSeq(batch_filenames, LAMBDA filename : filename \notin env.unreadable)
    ELSE <<>>

\* The outcome of batch j of the kind's call, once its future is done.
Outcome(kind, j) ==
    process_batch(kind, ExpectedFilenames(orch[kind].batches[j]), orch[kind].input,
                  futures[kind][j].env)

\* A worker thread runs process_batch to its end.
BatchComplete(kind, j) ==
    /\ orch[kind].state = "collecting"
    /\ futures[kind][j].state = "inflight"
    /\ \E env \in BatchEnvs(kind, orch[kind].batches[j].filenames) :
          futures' = [futures EXCEPT ![kind][j] = [state |-> "done", env |-> env]]
    /\ UNCHANGED <<orch, request, parseVars, pipeVars, searchVars>>

UpdateReplacing(acc, batch_results) == batch_results

\* line 135: results.update(batch_results)
Update(acc, batch_results) == DictMerge(acc, batch_results)

\* lines 133-137 (300-304): the next completed future; future.result() re-raises
\* what the worker raised, and the call returns after the last future
Collect(kind, j) ==
    /\ orch[kind].state = "collecting"
    /\ futures[kind][j].state = "done"
    /\ LET out == Outcome(kind, j)
           rest == {i \in 1..Len(futures[kind]) : i # j /\ futures[kind][i].state # "collected"}
       IN IF out.raised
          THEN /\ orch' = [orch EXCEPT ![kind].state = "raised"]
               /\ UNCHANGED futures
          ELSE /\ orch' = [orch EXCEPT ![kind].results = Update(@, out.value),
                                       ![kind].state = IF rest = {} THEN "returned" ELSE @]
               /\ futures' = [futures EXCEPT ![kind][j].state = "collected"]
    /\ UNCHANGED <<request, parseVars, pipeVars, searchVars>>

BatchCompletes == \E kind \in Kinds : \E j \in 1..Len(futures[kind]) : BatchComplete(kind, j)

Collects == \E kind \in Kinds : \E j \in 1..Len(futures[kind]) : Collect(kind, j)

\* -------------------------------------- search_engine.py: the text projection
\* The records handed to the search engine are read from JSON: a dict from field
\* names to JSON values.  A number is written in tenths (0.6 is JNum(6)).
JNum(n) == [t |-> "number", v |-> n]

\* analysis_data.get(key, default)
Get(data, key, default) == IF key \in DOMAIN data THEN data[key] ELSE default

\* value == 'text'
IsStr(x, s) == x.t = "string" /\ x.v = s

\* the truth value of x, as `if age_demo and ...` takes it
Truthy(x) ==
    CASE x.t = "null" -> FALSE
      [] x.t = "string" -> x.v # ""
      [] x.t = "number" -> x.v # 0
      [] x.t = "array" -> Len(x.v) > 0
      [] OTHER -> TRUE

\* lines 36-77: indices_config, in its insertion order
IndexFields ==
    <<"luxury_index", "success_index", "family_index", "adventure_index",
      "health_index", "comfort_index", "humor_index", "love_index", "fear_index",
      "nostalgia_index">>

StrongPhrase ==
    [luxury_index |-> "luxury luxury luxury expensive expensive premium high-end wealthy exclusive elite sophisticated upscale",
     success_index |-> "successful successful achievement wealthy accomplished winning triumph victory elite",
     family_index |-> "family family children parents togetherness belonging home loving caring",
     adventure_index |-> "adventure adventure travel freedom exploration outdoor exciting thrilling journey",
     health_index |-> "healthy healthy fitness exercise wellness active energetic vibrant strong",
     comfort_index |-> "comfortable comfortable cozy relaxing peaceful homey warm soft gentle",
     humor_index |-> "funny funny comedy humorous entertaining laughs hilarious amusing playful",
     love_index |-> "romantic romantic love dating relationships intimate affectionate tender",
     fear_index |-> "security security safety protection warning danger threatening serious urgent",
     nostalgia_index |-> "nostalgic nostalgic vintage retro classic memories sentimental timeless traditional"]

WeakPhrase ==
    [luxury_index |-> "somewhat luxury expensive premium",
     success_index |-> "somewhat successful achievement",
     family_index |-> "somewhat family children parents",
     adventure_index |-> "somewhat adventure travel outdoor",
     health_index |-> "somewhat healthy fitness exercise",
     comfort_index |-> "somewhat comfortable cozy relaxing",
     humor_index |-> "somewhat funny comedy humorous",
     love_index |-> "somewhat romantic love relationships",
     fear_index |-> "somewhat security safety protection",
     nostalgia_index |-> "somewhat nostalgic vintage retro"]

\* line 82: value >= 0.6, in tenths
StrongThreshold == 6

\* line 84: value >= 0.2, in tenths
WeakThreshold == 2

\* lines 28 and 30: scene_cuts > 10, scene_cuts > 5
ManyCuts == 10

SomeCuts == 5

\* lines 12-15
ActivityPart(data) ==
    LET a == Get(data, "activity_level", JNull)
    IN IF IsStr(a, "dynamic")
       THEN <<"fast-paced dynamic energetic active movement quick">>
       ELSE IF IsStr(a, "sedentary")
       THEN <<"slow-paced calm static peaceful relaxed">>
       ELSE <<>>

\* lines 18-24
MusicPart(data) ==
    LET music == Get(data, "music_intensity", JString("low"))
    IN IF IsStr(music, "high") THEN <<"loud energetic upbeat fast music intense">>
       ELSE IF IsStr(music, "medium") THEN <<"moderate tempo balanced music">>
       ELSE <<"soft calm quiet ambient peaceful music">>

\* len(x) and iteration over x are defined for an array and a string, and
\* raise TypeError for a number or null (the values these fields take in the
\* records indexed here)
HasLen(x) == x.t \in {"array", "string"}

\* lines 27-33
SceneCutsPart(data) ==
    LET scene_cuts == Len(Get(data, "scene_cuts", JArray(<<>>)).v)
    IN IF scene_cuts > ManyCuts THEN <<"fast-paced quick cuts rapid editing dynamic">>
       ELSE IF scene_cuts > SomeCuts THEN <<"moderate pacing steady editing">>
       ELSE <<"slow-paced few cuts long takes calm">>

IndexPhraseAbove(index_name, value) ==
    IF value > StrongThreshold THEN <<StrongPhrase[index_name]>>
    ELSE IF value > WeakThreshold THEN <<WeakPhrase[index_name]>>
    ELSE <<>>

\* lines 82-85: what one field of indices_config appends for its value
IndexPhrase(index_name, value) ==
    IF value >= StrongThreshold THEN <<StrongPhrase[index_name]>>
    ELSE IF value >= WeakThreshold THEN <<WeakPhrase[index_name]>>
    ELSE <<>>

RECURSIVE IndexParts(_, _)
\* lines 80-85: the loop over indices_config, from field number i on
IndexParts(data, i) ==
    IF i > Len(IndexFields) THEN <<>>
    ELSE LET index_name == IndexFields[i]
             value == Get(data, index_name, JNum(0)).v
         IN IndexPhrase(index_name, value) \o IndexParts(data, i + 1)

\* lines 88-94: the two demographic fields (a string or absent, in the records
\* indexed here)
DemographicParts(data) ==
    LET age_demo == Get(data, "age_demographic", JNull)
        gender_demo == Get(data, "gender_demographic", JNull)
    IN (IF Truthy(age_demo) /\ ~IsStr(age_demo, "N/A")
        THEN <<age_demo.v \o " demographic " \o age_demo.v \o " audience">>
        ELSE <<>>)
       \o (IF Truthy(gender_demo) /\ ~IsStr(gender_demo, "N/A")
           THEN <<gender_demo.v \o " audience " \o gender_demo.v \o " demographic">>
           ELSE <<>>)

\* lines 97-112: product visibility and purchase urgency
VisibilityUrgencyParts(data) ==
    LET visibility == Get(data, "product_visibility_score", JNull)
        urgency == Get(data, "purchase_urgency", JNull)
    IN (IF IsStr(visibility, "high") THEN <<"product-focused prominent product visible showcasing">>
        ELSE IF IsStr(visibility, "medium") THEN <<"moderate product presence">>
        ELSE IF IsStr(visibility, "low") THEN <<"brand-awareness subtle product">>
        ELSE <<>>)
       \o (IF IsStr(urgency, "high") THEN <<"urgent immediate action buy now">>
           ELSE IF IsStr(urgency, "medium") THEN <<"moderate call-to-action">>
           ELSE IF IsStr(urgency, "low") THEN <<"brand awareness informational">>
           ELSE <<>>)

RECURSIVE MessageLoop(_)
\* lines 116-126: the loop over the items of message_types
MessageLoop(message_types) ==
    IF Len(message_types) = 0 THEN <<>>
    ELSE LET msg_type == Head(message_types)
         IN (IF msg_type = "humor" THEN <<"funny comedy humorous entertaining">>
             ELSE IF msg_type = "storytelling" THEN <<"narrative story emotional journey">>
             ELSE IF msg_type = "demonstration" THEN <<"showing product demo how-to practical">>
             ELSE IF msg_type = "emotional_appeal" THEN <<"emotional touching heartfelt moving">>
             ELSE IF msg_type = "problem_solution" THEN <<"solution problem-solving helpful practical">>
             ELSE <<>>) \o MessageLoop(Tail(message_types))

\* lines 115-126: message_types is an array of strings; the characters of a
\* string match no message type
MessageParts(data) ==
    LET message_types == Get(data, "message_types", JArray(<<>>))
    IN IF message_types.t = "array" THEN MessageLoop(message_types.v) ELSE <<>>

RECURSIVE Join(_, _)
\* sep.join(parts)
Join(parts, sep) ==
    IF Len(parts) = 0 THEN ""
    ELSE IF Len(parts) = 1 THEN parts[1]
    ELSE parts[1] \o sep \o Join(Tail(parts), sep)

\* What makes create_embedding_text raise TypeError: len() of a scene_cuts that
\* is a number or null (line 27), the comparison of an index value that is no
\* number (line 82), the loop over a message_types that is no array (line 116).
ProjectionRaises(data) ==
    \/ ~HasLen(Get(data, "scene_cuts", JArray(<<>>)))
    \/ \E i \in 1..Len(IndexFields) : Get(data, IndexFields[i], JNum(0)).t # "number"
    \/ ~HasLen(Get(data, "message_types", JArray(<<>>)))

\* lines 7-128
create_embedding_text(analysis_data) ==
    IF ProjectionRaises(analysis_data) THEN Raised("TypeError")
    ELSE Returned(Join(ActivityPart(analysis_data) \o MusicPart(analysis_data)
                         \o SceneCutsPart(analysis_data) \o IndexParts(analysis_data, 1)
                         \o DemographicParts(analysis_data)
                         \o VisibilityUrgencyParts(analysis_data)
                         \o MessageParts(analysis_data),
                       " "), "")

NoReturn == [raised |-> FALSE, value |-> EmptyOD, printed |-> "not called"]

\* No search call has been made on the engine since it was last indexed.
NoSearch == [query |-> "", top_k |-> 0, file_type |-> "", called |-> FALSE]

\* No search_with_filters call has been made on it since.
NoFilterSearch == [query |-> "", filters |-> EmptyOD, top_k |-> 0, called |-> FALSE]

\* ------------------------------------- search_engine.py: class AdSearchEngine
\* self.model.encode: the sentence-transformer model, one fixed vector per text.
\* Three directions stand for it, told apart by the last word of the text.
Encode(text) ==
    IF EndsWith(text, "upscale") \/ EndsWith(text, "expensive") THEN <<3, 4>>
    ELSE IF EndsWith(text, "calm") THEN <<4, 3>>
    ELSE <<0, 5>>

\* np.dot of two vectors
Dot(u, v) == u[1] * v[1] + u[2] * v[2]

\* np.linalg.norm of a vector (whole, for the vectors of Encode)
Norm(v) == CHOOSE n \in 0..(Dot(v, v)) : n * n = Dot(v, v)

\* lines 190-192: the cosine similarity, as the fraction num / den
Cosine(embedding, query_embedding) ==
    [num |-> Dot(embedding, query_embedding),
     den |-> Norm(embedding) * Norm(query_embedding)]

\* x >= y and x == y for two similarities (the denominators are positive)
SimGE(x, y) == x.num * y.den >= y.num * x.den

SimEq(x, y) == x.num * y.den = y.num * x.den

\* line 164
FileType(filename) == IF EndsWith(Lower(filename), ".mp4") THEN "video" ELSE "image"

SkippedIfError(data) == "error" \in DOMAIN data

\* line 150: 'error' in data or 'analysis_error' in data
SkippedByIndex(data) == "error" \in DOMAIN data \/ "analysis_error" \in DOMAIN data

RECURSIVE IndexLoop(_, _, _, _)
\* lines 148-165: the loop over analysis_results.items(); an exception leaves it
\* with what self.metadata holds by then
IndexLoop(keys, val, embeddings_list, md) ==
    IF Len(keys) = 0
    THEN [raised |-> FALSE, embeddings_list |-> embeddings_list, metadata |-> md]
    ELSE LET filename == Head(keys)
             data == val[filename]
             search_text == create_embedding_text(data)
         IN IF SkippedByIndex(data)
            THEN IndexLoop(Tail(keys), val, embeddings_list, md)
            ELSE IF search_text.raised
            THEN [raised |-> TRUE, exc |-> search_text.exc,
                  embeddings_list |-> embeddings_list, metadata |-> md]
            ELSE IndexLoop(Tail(keys), val,
                           Append(embeddings_list, Encode(search_text.value)),
                           Append(md, [filename |-> filename,
                                       search_text |-> search_text.value,
                                       analysis_data |-> data,
                                       file_type |-> FileType(filename)]))

\* lines 134-139: a new engine; None is written as the empty sequence
EngineNew ==
    /\ embeddings = <<>>
    /\ metadata = <<>>
    /\ indexed = FALSE
    /\ analysis_results = EmptyOD
    /\ indexRet = NoReturn
    /\ indexCalls = 0
    /\ searchArgs = NoSearch
    /\ searchRet = NoReturn
    /\ filterArgs = NoFilterSearch
    /\ filterRet = NoReturn
    /\ statsRet = NoReturn
    /\ projInput = EmptyDict
    /\ projected = NoReturn

\* lines 141-169: index_analysis_results.  self.metadata is emptied at line 146
\* and filled in the loop; self.embeddings and self.indexed are assigned after
\* the loop, at lines 167-168.
index_analysis_results(recs) ==
    LET loop == IndexLoop(recs.keys, recs.val, <<>>, <<>>)
    IN /\ metadata' = loop.metadata
       /\ IF loop.raised
          THEN /\ indexRet' = Raised(loop.exc)
               /\ UNCHANGED <<embeddings, indexed>>
          ELSE /\ indexRet' = Returned(EmptyOD, "Successfully indexed")
               /\ embeddings' = loop.embeddings_list
               /\ indexed' = TRUE
       /\ analysis_results' = recs
       /\ searchArgs' = NoSearch
       /\ searchRet' = NoReturn
       /\ filterArgs' = NoFilterSearch
       /\ filterRet' = NoReturn
       /\ statsRet' = NoReturn
       /\ UNCHANGED <<parseVars, batchVars, pipeVars, projVars>>

\* lines 196-209: the loop over enumerate(similarities), from idx (from 0) on
RECURSIVE SearchLoop(_, _, _, _)
SearchLoop(similarities, file_type, idx, acc) ==
    IF idx >= Len(similarities) THEN Returned(acc, "")
    ELSE IF idx >= Len(metadata) THEN Raised("IndexError")
    ELSE LET md == metadata[idx + 1]
         IN IF file_type # "" /\ md.file_type # file_type
            THEN SearchLoop(similarities, file_type, idx + 1, acc)
            ELSE SearchLoop(similarities, file_type, idx + 1,
                    Append(acc,
                        [filename |-> md.filename,
                         file_type |-> md.file_type,
                         similarity |-> similarities[idx + 1],
                         analysis |-> md.analysis_data,
                         search_text_preview |->
                             SubSeq(md.search_text, 1, Min(200, Len(md.search_text)))
                                 \o "..."]))

InsertBeforeTies(sorted, x) ==
    LET n == Cardinality({i \in 1..Len(sorted) :
                             SimGE(sorted[i].similarity, x.similarity)
                                 /\ ~SimEq(sorted[i].similarity, x.similarity)})
    IN SubSeq(sorted, 1, n) \o <<x>> \o SubSeq(sorted, n + 1, Len(sorted))

\* x takes its place in a list sorted by similarity, highest first: after every
\* item that is not below it (list.sort is stable, with reverse=True too)
InsertSorted(sorted, x) ==
    LET n == Cardinality({i \in 1..Len(sorted) :
                             SimGE(sorted[i].similarity, x.similarity)})
    IN SubSeq(sorted, 1, n) \o <<x>> \o SubSeq(sorted, n + 1, Len(sorted))

RECURSIVE SortBySimilarity(_)
\* line 212: results.sort(key=lambda x: x['similarity'], reverse=True)
SortBySimilarity(items) ==
    IF Len(items) = 0 THEN <<>>
    ELSE InsertSorted(SortBySimilarity(SubSeq(items, 1, Len(items) - 1)),
                      items[Len(items)])

\* lines 171-213: search(query, top_k, file_type); no file_type is written ""
search(query, top_k, file_type) ==
    IF ~indexed THEN Raised("ValueError: not indexed")
    ELSE IF Len(embeddings) = 0 THEN Raised("ValueError: shapes not aligned")
    ELSE LET query_embedding == Encode(query)
             similarities == [i \in 1..Len(embeddings) |->
                                 Cosine(embeddings[i], query_embedding)]
             found == SearchLoop(similarities, file_type, 0, <<>>)
         IN IF found.raised THEN found
            ELSE Returned(PySlice(SortBySimilarity(found.value), 0, top_k), "")

\* line 228: initial_results = self.search(query, top_k=50)
PoolSize == 50

\* a == b for two JSON values
JEq(a, b) == a.t = b.t /\ (a.t = "null" \/ a.v = b.v)

\* filter_key[4:]
IndexNameOf(filter_key) == SubSeq(filter_key, 5, Len(filter_key))

FilterOutcomeAbsentPasses(data, filter_key, filter_value) ==
    LET index_name == IndexNameOf(filter_key)
    IN IF StartsWith(filter_key, "min_")
       THEN IF index_name \notin DOMAIN data THEN "passes"
            ELSE IF data[index_name].v < filter_value.v THEN "fails" ELSE "passes"
       ELSE IF StartsWith(filter_key, "max_")
       THEN IF Get(data, index_name, JNum(0)).v > filter_value.v THEN "fails" ELSE "passes"
       ELSE IF ~JEq(Get(data, filter_key, JNull), filter_value) THEN "fails" ELSE "passes"

\* lines 240-256: what one filter does with one result's analysis.  A min_ or
\* max_ filter compares data.get(index_name, 0) with the bound, which raises
\* TypeError when the value is null or a string and the bound a number; any
\* other filter compares data.get(filter_key) with the value.
FilterOutcome(data, filter_key, filter_value) ==
    LET index_name == IndexNameOf(filter_key)
        value == Get(data, index_name, JNum(0))
    IN IF StartsWith(filter_key, "min_")
       THEN IF value.t # "number" THEN "raises"
            ELSE IF value.v < filter_value.v THEN "fails" ELSE "passes"
       ELSE IF StartsWith(filter_key, "max_")
       THEN IF value.t # "number" THEN "raises"
            ELSE IF value.v > filter_value.v THEN "fails" ELSE "passes"
       ELSE IF ~JEq(Get(data, filter_key, JNull), filter_value) THEN "fails" ELSE "passes"

RECURSIVE PassesFilters(_, _, _)
\* lines 238-256: the loop over filters.items(), from the i-th filter on; it
\* stops at the first filter that fails
PassesFilters(data, filters, i) ==
    IF i > Len(filters.keys) THEN "passes"
    ELSE LET filter_key == filters.keys[i]
             outcome == FilterOutcome(data, filter_key, filters.val[filter_key])
         IN IF outcome = "passes" THEN PassesFilters(data, filters, i + 1) ELSE outcome

RECURSIVE FilterLoop(_, _, _, _, _)
\* lines 233-265: the loop over initial_results, from the n-th result on.  The
\* test len(filtered_results) >= top_k comes after the result has been added.
FilterLoop(initial_results, filters, top_k, n, filtered_results) ==
    IF n > Len(initial_results) THEN Returned(filtered_results, "")
    ELSE LET result == initial_results[n]
             passes_filters == PassesFilters(result.analysis, filters, 1)
             added == IF passes_filters = "passes"
                      THEN Append(filtered_results, result) ELSE filtered_results
         IN IF passes_filters = "raises" THEN Raised("TypeError")
            ELSE IF Len(added) >= top_k THEN Returned(added, "")
            ELSE FilterLoop(initial_results, filters, top_k, n + 1, added)

\* lines 215-265: search_with_filters(query, filters, top_k); no filters, None
\* or {}, are written as the empty mapping
search_with_filters(query, filters, top_k) ==
    LET initial_results == search(query, PoolSize, "")
    IN IF initial_results.raised THEN initial_results
       ELSE IF Len(filters.keys) = 0
       THEN Returned(PySlice(initial_results.value, 0, top_k), "")
       ELSE FilterLoop(initial_results.value, filters, top_k, 1, <<>>)

\* lines 267-280: get_stats.  np.array([]) has the shape (0,), and shape[1] of
\* it raises IndexError.
get_stats ==
    IF ~indexed THEN Returned([error |-> "Not indexed"], "")
    ELSE IF Len(embeddings) = 0 THEN Raised("IndexError")
    ELSE Returned(
             [total_files |-> Len(metadata),
              total_videos |->
                  Cardinality({i \in 1..Len(metadata) : metadata[i].file_type = "video"}),
              total_images |->
                  Cardinality({i \in 1..Len(metadata) : metadata[i].file_type = "image"}),
              embedding_dimension |-> Len(embeddings[1])], "")

\* ------------------------------------------------ main.py: process_zip_file
\* The dataset directory: whether it exists, the members of the zip file
\* extracted into it, the zip file they came from, and the files among them
\* whose compressed copy (main.py lines 29 and 78) lies next to them.
NoDir == [exists |-> FALSE, files |-> <<>>, source |-> <<>>, compressed |-> {}]

\* The analysis file: whether it exists, whether it holds a whole JSON document,
\* and the mapping json.load reads from it.
NoArtifact == [exists |-> FALSE, complete |-> FALSE, content |-> EmptyOD]

\* The file after a write that failed part-way: open(path, 'w') has created or
\* truncated it and json.dump has written only a part of the document.
PartialArtifact == [exists |-> TRUE, complete |-> FALSE, content |-> EmptyOD]

\* Two calls at most overlap.
Procs == 1..MaxOverlap

IdleProc == [pc |-> "idle", archive |-> <<>>, results |-> EmptyOD, ret |-> NoReturn]

NoProcs == [p \in Procs |-> IdleProc]

\* No process_zip_file call is made.
PipelineOff ==
    /\ datasetDir = NoDir
    /\ effects = <<>>
    /\ artifact = NoArtifact
    /\ calls = 0
    /\ pc = "idle"
    /\ archive = <<>>
    /\ extracted = FALSE
    /\ results = EmptyOD
    /\ ret = NoReturn
    /\ writes = 0
    /\ procs = NoProcs

\* What is handed to process_zip_file: a file that is no zip file, or a zip file
\* with these members, listed in the order os.walk yields them once extracted.
NotAZip == <<"not a zip file">>

ArchiveOrder == <<"a.png", "c.mp4", "D.MP4", ".h.png", "notes.txt">>

Archives ==
    {SelectSeq(ArchiveOrder, LAMBDA n : n \in S) :
        S \in {T \in SUBSET Range(ArchiveOrder) : Cardinality(T) <= MaxFiles}}

\* line 188: hidden files are skipped by the walk
SkippedByWalk(filename) == StartsWith(filename, ".") \/ EndsWith(filename, "-analysis.json")

\* lines 193 and 207: the files the walk preprocesses
IsMediaName(filename) == IsImageName(filename) \/ IsVideoName(filename)

\* results[filename] = rec
ODSet(d, k, rec) ==
    [keys |-> IF k \in Range(d.keys) THEN d.keys ELSE Append(d.keys, k),
     val |-> (k :> rec) @@ d.val]

\* lines 191-227: the record of one file; failed says whether its preprocessing raised
PreprocessedRecord(filename, failed) ==
    IF failed THEN ErrorRecord
    ELSE IF IsImageName(filename) THEN WithTempPath(ImageFeatures)
    ELSE WithTempPath(VideoFeatures)

RECURSIVE Walk(_, _, _)
\* lines 180-227: the walk over the dataset directory
Walk(files, failing, acc) ==
    IF Len(files) = 0 THEN acc
    ELSE LET filename == Head(files)
         IN IF SkippedByWalk(filename) \/ ~IsMediaName(filename)
            THEN Walk(Tail(files), failing, acc)
            ELSE Walk(Tail(files), failing,
                      ODSet(acc, filename, PreprocessedRecord(filename, filename \in failing)))

\* lines 126-127: zipfile.is_zipfile(zip_path)
IsZipFileAlways(a) == TRUE

IsZipFile(a) == a # NotAZip

RECURSIVE TupleToList(_)
\* json.dump writes a tuple as a JSON array, which json.load reads as a list
TupleToList(s) ==
    IF Len(s) = 0 THEN s
    ELSE LET c == SubSeq(s, 1, 1)
         IN (IF c = "(" THEN "[" ELSE IF c = ")" THEN "]" ELSE c)
                \o TupleToList(SubSeq(s, 2, Len(s)))

\* lines 308-309 and 138-139: the mapping json.load reads from what json.dump
\* wrote for res
JsonDump(res) ==
    [keys |-> res.keys,
     val |-> [f \in DOMAIN res.val |->
                [k \in DOMAIN res.val[f] |-> TupleToList(res.val[f][k])]]]

CacheNeverHit(art) == FALSE

\* line 136: analysis_json_path.exists()
CacheHit(art) == art.exists

\* lines 136-139: json.load(f) of the analysis file
ReadArtifact(art) ==
    IF art.complete THEN Returned(art.content, "") ELSE Raised("JSONDecodeError")

\* lines 151-154: extractall may raise after it has written the first n members
ExtractedMembers(a, n) == SubSeq(a, 1, n)

\* The files above the size limit of compress_image_for_gemini (line 25) and
\* compress_video_for_gemini (line 68): a compressed copy is made of these.
Large == {"big.png", "big.mp4"}

\* Where in the dataset directory a member lies: in images/, in videos/, or at
\* the root (where lines 163-174 move the content of any other folder).
Folder(filename) ==
    IF filename = "big.png" THEN "images"
    ELSE IF filename = "D.MP4" THEN "videos"
    ELSE "root"

\* lines 29 and 78: image_path.replace('.png', '_compressed.png') and
\* input_path.replace('.mp4', '_compressed.mp4')
CopyName(filename) ==
    SubSeq(filename, 1, Len(filename) - 4) \o "_compressed"
        \o SubSeq(filename, Len(filename) - 3, Len(filename))

RECURSIVE DirListingFrom(_, _)
DirListingFrom(files, compressed) ==
    IF Len(files) = 0 THEN <<>>
    ELSE <<Head(files)>>
             \o (IF Head(files) \in compressed THEN <<CopyName(Head(files))>> ELSE <<>>)
             \o DirListingFrom(Tail(files), compressed)

\* lines 182-183: the files os.walk yields, a compressed copy left by an earlier
\* call among them, next to its original
DirListing(dir) == DirListingFrom(dir.files, dir.compressed)

\* lines 200 and 213: the files the walk makes a compressed copy of, in the
\* order it reaches them; a file whose preprocessing raised is not compressed
Compressed(dir, failing) ==
    SelectSeq(dir.files,
              LAMBDA f : /\ ~SkippedByWalk(f)
                         /\ IsMediaName(f)
                         /\ f \in Large
                         /\ f \notin failing)

\* lines 293-297: the compressed copies the clean-up finds, those in images/
\* and videos/
Removed(dir) ==
    SelectSeq(dir.files, LAMBDA f : f \in dir.compressed
                                       /\ Folder(f) \in {"images", "videos"})

\* lines 288-305: the clean-up of the compressed copies
CleanUp(dir) == [dir EXCEPT !.compressed = @ \ Range(Removed(dir))]

\* line 133: <name>-analysis.json
AnalysisFile == "analysis.json"

Events(op, files) == [i \in 1..Len(files) |-> [op |-> op, file |-> files[i]]]

\* lines 123-175: the checks of the zip file, the cache lookup and the extraction
Call(a) ==
    /\ pc = "idle"
    /\ calls < MaxCalls
    /\ calls' = calls + 1
    /\ archive' = a
    /\ orch' = [k \in Kinds |-> IdleOrch]
    /\ futures' = [k \in Kinds |-> <<>>]
    /\ results' = EmptyOD
    /\ effects' = <<>>
    /\ IF ~IsZipFile(a)
       THEN /\ ret' = Raised("ValueError")
            /\ extracted' = FALSE
            /\ UNCHANGED <<pc, datasetDir>>
       ELSE IF CacheHit(artifact)
       THEN /\ ret' = ReadArtifact(artifact)
            /\ extracted' = FALSE
            /\ UNCHANGED <<pc, datasetDir>>
       ELSE IF datasetDir.exists
       THEN /\ pc' = "preprocess"
            /\ extracted' = FALSE
            /\ UNCHANGED <<ret, datasetDir>>
       ELSE \E n \in 0..Len(a) :
              /\ datasetDir' = [exists |-> TRUE, files |-> ExtractedMembers(a, n),
                                source |-> a, compressed |-> {}]
              /\ IF n = Len(a)
                 THEN /\ pc' = "preprocess"
                      /\ extracted' = TRUE
                      /\ UNCHANGED ret
                 ELSE /\ ret' = Raised("BadZipFile")
                      /\ extracted' = FALSE
                      /\ UNCHANGED pc
    /\ UNCHANGED <<artifact, writes, procs, request, parseVars, searchVars>>

\* lines 177-233: preprocessing; the files in `failing` raise while preprocessed
Preprocess ==
    /\ pc = "preprocess"
    /\ \E failing \in SUBSET {f \in Range(datasetDir.files) : IsMediaName(f)} :
          /\ results' = Walk(DirListing(datasetDir), failing, EmptyOD)
          /\ datasetDir' = [datasetDir EXCEPT
                               !.compressed = @ \cup Range(Compressed(datasetDir, failing))]
          /\ effects' = effects \o Events("compress", Compressed(datasetDir, failing))
    /\ pc' = "images"
    /\ UNCHANGED <<artifact, calls, archive, extracted, ret,
                   writes, procs, batchVars, parseVars, searchVars>>

\* line 244 and line 263: the files main.py counts before it calls a kind's analysis
CountedFiles(kind, res) ==
    {k \in Range(res.keys) :
        (IF kind = "image" THEN IsImageName(k) ELSE IsVideoName(k))
            /\ "error" \notin DOMAIN res.val[k]}

\* line 267
VideoBatchSize == 5

\* line 247: (total_images + 2) // 3
ImageBatchCount == 3

ImageBatchSize(total_images) == Max(1, (total_images + 2) \div ImageBatchCount)

Skipped == [IdleOrch EXCEPT !.state = "skipped"]

\* lines 244-253 and 263-272: a kind's analysis is called when it has files
AnalyzeKind(kind, batch_size) ==
    LET o == IF Cardinality(CountedFiles(kind, results)) > 0
             THEN StartOrch(kind, results, batch_size)
             ELSE Skipped
    IN /\ orch' = [orch EXCEPT ![kind] = o]
       /\ futures' = [futures EXCEPT ![kind] = StartFutures(o)]

\* lines 235-253: the images are analysed first
AnalyzeImages ==
    /\ pc = "images"
    /\ AnalyzeKind("image", ImageBatchSize(Cardinality(CountedFiles("image", results))))
    /\ pc' = "images-run"
    /\ UNCHANGED <<datasetDir, effects, artifact, calls, archive, extracted, results, ret,
                   writes, procs, request, parseVars, searchVars>>

OrchestrationStarted(kind) == orch[kind].state # "idle"

\* lines 250-253 and 270-272: batch_analyze_* has returned, or was not called
OrchestrationReturned(kind) == orch[kind].state \in {"returned", "skipped"}

\* lines 258-272: the videos are analysed once batch_analyze_images has returned
AnalyzeVideos ==
    /\ pc = "images-run"
    /\ OrchestrationReturned("image")
    /\ AnalyzeKind("video", VideoBatchSize)
    /\ pc' = "videos-run"
    /\ UNCHANGED <<datasetDir, effects, artifact, calls, archive, extracted, results, ret,
                   writes, procs, request, parseVars, searchVars>>

\* An exception leaving batch_analyze_* leaves process_zip_file too.
Abort ==
    /\ \/ pc = "images-run" /\ orch["image"].state = "raised"
       \/ pc = "videos-run" /\ orch["video"].state = "raised"
    /\ ret' = Raised("model handle")
    /\ pc' = "idle"
    /\ orch' = [k \in Kinds |-> IdleOrch]
    /\ futures' = [k \in Kinds |-> <<>>]
    /\ UNCHANGED <<datasetDir, effects, artifact, calls, archive, extracted, results,
                   writes, procs, request, parseVars, searchVars>>

RECURSIVE SetAll(_, _, _)
SetAll(d, keys, val) ==
    IF keys = {} THEN d
    ELSE LET k == CHOOSE x \in keys : TRUE
         IN SetAll(ODSet(d, k, val[k]), keys \ {k}, val)

FinalResultsVideosOnly(res, video_results, image_results) ==
    SetAll(res, DOMAIN video_results, video_results)

FinalResultsAnalysedOnly(res, video_results, image_results) ==
    SetAll(SetAll(EmptyOD, DOMAIN video_results, video_results),
           DOMAIN image_results, image_results)

\* lines 279-283: results[filename] = analysis, for the videos and then the images
FinalResults(res, video_results, image_results) ==
    SetAll(SetAll(res, DOMAIN video_results, video_results),
           DOMAIN image_results, image_results)

\* What the write of the analysis file does: it succeeds, open raises and no
\* file is made, or json.dump raises after a part of the document is written.
WriteOutcomes == {"written", "open fails", "dump fails"}

\* lines 308-309: with open(analysis_json_path, 'w') as f: json.dump(results, f)
WriteArtifact(art, final, w) ==
    IF w = "written" THEN [exists |-> TRUE, complete |-> TRUE, content |-> JsonDump(final)]
    ELSE IF w = "dump fails" THEN PartialArtifact
    ELSE art

WriteFailureSwallowed(final) == Returned(final, "")

\* lines 307-309 are in no try block: what open or json.dump raises leaves
\* process_zip_file
WriteFailure(final) == Raised("OSError")

\* lines 279-344: the analyses are written into results, results saved as the
\* analysis file and returned
Finish ==
    /\ pc = "videos-run"
    /\ OrchestrationReturned("video")
    /\ LET final == FinalResults(results, orch["video"].results, orch["image"].results)
       IN /\ results' = final
          /\ datasetDir' = CleanUp(datasetDir)
          /\ \E w \in WriteOutcomes :
                /\ artifact' = WriteArtifact(artifact, final, w)
                /\ writes' = IF w = "open fails" THEN writes ELSE writes + 1
                /\ ret' = IF w = "written" THEN Returned(final, "") ELSE WriteFailure(final)
                /\ effects' = effects \o Events("cleanup", Removed(datasetDir))
                                  \o (IF w = "written" THEN Events("persist", <<AnalysisFile>>)
                                      ELSE <<>>)
    /\ pc' = "idle"
    /\ orch' = [k \in Kinds |-> IdleOrch]
    /\ futures' = [k \in Kinds |-> <<>>]
    /\ UNCHANGED <<calls, archive, extracted, procs, request, parseVars, searchVars>>

Init ==
    /\ ptext = <<>>
    /\ pfiles = <<>>
    /\ pout = NotParsed
    /\ orch = [k \in Kinds |-> IdleOrch]
    /\ futures = [k \in Kinds |-> <<>>]
    /\ request = NoRequest
    /\ PipelineOff
    /\ EngineNew

Calls == \E a \in Archives \cup {NotAZip} : Call(a)

Next ==
    \/ Calls
    \/ Preprocess
    \/ AnalyzeImages
    \/ AnalyzeVideos
    \/ BatchCompletes
    \/ Collects
    \/ Abort
    \/ Finish

Spec == Init /\ [][Next]_vars

\* ------------------------------- specification: the files of the directory
\* process_zip_file on zip files whose media are above the size limits, so
\* that compressed copies are made: big.mp4 lies at the root of the dataset
\* directory and big.png in images/, and os.walk yields the root first.
BigArchiveOrder == <<"big.mp4", "big.png">>

BigArchives ==
    {SelectSeq(BigArchiveOrder, LAMBDA n : n \in S) : S \in SUBSET Range(BigArchiveOrder)}

BigCalls == \E a \in BigArchives : Call(a)

NextFiles ==
    \/ BigCalls
    \/ Preprocess
    \/ AnalyzeImages
    \/ AnalyzeVideos
    \/ BatchCompletes
    \/ Collects
    \/ Abort
    \/ Finish

SpecFiles == Init /\ [][NextFiles]_vars

\* ------------------------------------------------- specification: reconciler
InitParse ==
    /\ ptext \in ParseTexts
    /\ pfiles \in {SubSeq(ParseNames, 1, n) : n \in 0..MaxParseFiles}
    /\ pout = NotParsed
    /\ orch = [k \in Kinds |-> IdleOrch]
    /\ futures = [k \in Kinds |-> <<>>]
    /\ request = NoRequest
    /\ PipelineOff
    /\ EngineNew

ParseCall ==
    /\ pout = NotParsed
    /\ pout' = parse_batch_response(ptext, pfiles)
    /\ UNCHANGED <<ptext, pfiles, batchVars, pipeVars, searchVars>>

NextParse == ParseCall

SpecParse == InitParse /\ [][NextParse]_vars

\* ------------------------------------- specification: one batch_analyze_* call
InputNames == {"a.png", "B.PNG", "e.png", "c.mp4", "D.MP4"}

InputKeyLists ==
    {s \in UNION {[1..n -> InputNames] : n \in 0..MaxInputFiles} :
        \A i, j \in 1..Len(s) : i # j => s[i] # s[j]}

\* The records a caller may pass for one filename.
InputRecords(k) ==
    IF IsVideoName(k)
    THEN {WithTempPath(VideoFeatures), VideoFeatures, ErrorRecord}
    ELSE {WithTempPath(ImageFeatures), ErrorRecord}

InputDicts ==
    UNION {{[keys |-> ks, val |-> v] :
                v \in {f \in [Range(ks) -> UNION {InputRecords(k) : k \in Range(ks)}] :
                          \A k \in Range(ks) : f[k] \in InputRecords(k)}} :
           ks \in InputKeyLists}

InitBatch ==
    /\ ptext = <<>>
    /\ pfiles = <<>>
    /\ pout = NotParsed
    /\ orch = [k \in Kinds |-> IdleOrch]
    /\ futures = [k \in Kinds |-> <<>>]
    /\ request \in [kind : Kinds, pre : InputDicts, batch_size : 1..MaxBatchSize]
    /\ PipelineOff
    /\ EngineNew

\* batch_analyze_videos(pre, batch_size) or batch_analyze_images(pre, batch_size)
\* is called: lines 28-46 and 130-131 (228-246 and 297-298)
DirectCall ==
    /\ request # NoRequest
    /\ orch[request.kind].state = "idle"
    /\ LET o == StartOrch(request.kind, request.pre, request.batch_size)
       IN /\ orch' = [orch EXCEPT ![request.kind] = o]
          /\ futures' = [futures EXCEPT ![request.kind] = StartFutures(o)]
    /\ UNCHANGED <<request, parseVars, pipeVars, searchVars>>

NextBatch == DirectCall \/ BatchCompletes \/ Collects

SpecBatch == InitBatch /\ [][NextBatch]_vars

\* batch_analyze_* with its scheduling: the calling thread runs, and collects
\* every future that is done (lines 133-135).  A worker is in model.
\* generate_content (lines 83-88 and 259-264) until the model answers: the call
\* is given no timeout, and as_completed and future.result() are given none
\* either, so nothing obliges a batch in flight ever to complete.
SpecBatchHang ==
    InitBatch /\ [][NextBatch]_vars /\ WF_vars(DirectCall) /\ WF_vars(Collects)

\* ----------------------- specification: overlapping process_zip_file calls
\* Two calls for the one dataset run at the same time, as two processes or two
\* worker threads do: nothing in process_zip_file takes a lock.  Each step is
\* one stretch of the function between its accesses to the dataset directory.

\* lines 123-139: the checks of the zip file and the cache lookup
PBegin(p, a) ==
    /\ procs[p].pc = "idle"
    /\ procs' = [procs EXCEPT ![p] =
                    IF ~IsZipFile(a)
                    THEN [@ EXCEPT !.pc = "done", !.archive = a, !.ret = Raised("ValueError")]
                    ELSE IF CacheHit(artifact)
                    THEN [@ EXCEPT !.pc = "done", !.archive = a, !.ret = ReadArtifact(artifact)]
                    ELSE [@ EXCEPT !.pc = "extract", !.archive = a]]
    /\ UNCHANGED <<datasetDir, artifact, writes, callVars, batchVars, parseVars, searchVars>>

\* lines 141-175: the existing directory is used, or the zip file extracted
PExtract(p) ==
    /\ procs[p].pc = "extract"
    /\ IF datasetDir.exists
       THEN /\ procs' = [procs EXCEPT ![p].pc = "analyse"]
            /\ UNCHANGED datasetDir
       ELSE \E n \in 0..Len(procs[p].archive) :
              /\ datasetDir' = [exists |-> TRUE,
                                files |-> ExtractedMembers(procs[p].archive, n),
                                source |-> procs[p].archive, compressed |-> {}]
              /\ procs' = [procs EXCEPT ![p] =
                              IF n = Len(procs[p].archive)
                              THEN [@ EXCEPT !.pc = "analyse"]
                              ELSE [@ EXCEPT !.pc = "done", !.ret = Raised("BadZipFile")]]
    /\ UNCHANGED <<artifact, writes, callVars, batchVars, parseVars, searchVars>>

\* lines 279-283: the records after the analysis of both kinds, when the model
\* answered every file but those in `marked`
AnalysedResults(pre, marked) ==
    [keys |-> pre.keys,
     val |-> [f \in DOMAIN pre.val |->
                LET kind == IF IsImageName(f) THEN "image" ELSE "video"
                IN IF "error" \in DOMAIN pre.val[f] THEN pre.val[f]
                   ELSE IF f \in marked THEN MissingRecord(kind, pre.val[f])
                   ELSE MergedRecord(kind, pre.val[f], AnalysisFull)]]

\* lines 177-283: preprocessing and the analysis of both kinds
PAnalyze(p) ==
    /\ procs[p].pc = "analyse"
    /\ \E failing \in SUBSET {f \in Range(datasetDir.files) : IsMediaName(f)} :
          LET pre == Walk(DirListing(datasetDir), failing, EmptyOD)
          IN /\ datasetDir' = [datasetDir EXCEPT
                                  !.compressed = @ \cup Range(Compressed(datasetDir, failing))]
             /\ \/ \E marked \in SUBSET Range(pre.keys) :
                     procs' = [procs EXCEPT ![p].pc = "write",
                                            ![p].results = AnalysedResults(pre, marked)]
                \/ /\ CountedFiles("image", pre) \cup CountedFiles("video", pre) # {}
                   /\ procs' = [procs EXCEPT ![p].pc = "done",
                                             ![p].results = pre,
                                             ![p].ret = Raised("model handle")]
    /\ UNCHANGED <<artifact, writes, callVars, batchVars, parseVars, searchVars>>

\* lines 288-344: the clean-up, the write of the analysis file and the return
PWrite(p) ==
    /\ procs[p].pc = "write"
    /\ datasetDir' = CleanUp(datasetDir)
    /\ \E w \in WriteOutcomes :
          /\ artifact' = WriteArtifact(artifact, procs[p].results, w)
          /\ writes' = IF w = "open fails" THEN writes ELSE writes + 1
          /\ procs' = [procs EXCEPT ![p].pc = "done",
                                    ![p].ret = IF w = "written"
                                               THEN Returned(procs[p].results, "")
                                               ELSE WriteFailure(procs[p].results)]
    /\ UNCHANGED <<callVars, batchVars, parseVars, searchVars>>

\* The zip files handed to the overlapping calls.
OverlapArchives == {a \in Archives : Len(a) <= MaxOverlapFiles}

PBegins == \E p \in Procs : \E a \in OverlapArchives \cup {NotAZip} : PBegin(p, a)

PExtracts == \E p \in Procs : PExtract(p)

PAnalyzes == \E p \in Procs : PAnalyze(p)

PWrites == \E p \in Procs : PWrite(p)

NextOverlap == PBegins \/ PExtracts \/ PAnalyzes \/ PWrites

SpecOverlap == Init /\ [][NextOverlap]_vars

\* --------------------------------------- specification: the search engine
\* One AdSearchEngine, indexed and searched in any order.
IndexNames == {"a.png", "D.MP4", "notes.txt"}

IndexKeyLists ==
    {s \in UNION {[1..n -> IndexNames] : n \in 0..MaxIndexFiles} :
        \A i, j \in 1..Len(s) : i # j => s[i] # s[j]}

\* Two analyses of different projected text.
AnalysisLuxury == [luxury_index |-> JNum(7), targeting_type |-> JString("retargeting")]

AnalysisMusic == [music_intensity |-> JString("high")]

\* The records an analysis file may hold for a name: an analysis, a
\* preprocessing failure, a batch failure, and an analysis in which the model
\* answered null for a score.
IndexRecords(k) ==
    IF k = "a.png"
    THEN {AnalysisLuxury, AnalysisMusic,
          [error |-> JString("preprocessing failed"), status |-> JString("failed")]}
    ELSE IF k = "D.MP4"
    THEN {AnalysisLuxury,
          [luxury_index |-> JNum(7), analysis_error |-> JString(MissingAnalysis)]}
    ELSE {AnalysisMusic, [luxury_index |-> JNull]}

IndexInputs ==
    UNION {{[keys |-> ks, val |-> v] :
                v \in {f \in [Range(ks) -> UNION {IndexRecords(k) : k \in Range(ks)}] :
                          \A k \in Range(ks) : f[k] \in IndexRecords(k)}} :
           ks \in IndexKeyLists}

Queries == {"wealthy luxury expensive"}

FileTypes == {"", "video", "image"}

InitSearch ==
    /\ ptext = <<>>
    /\ pfiles = <<>>
    /\ pout = NotParsed
    /\ orch = [k \in Kinds |-> IdleOrch]
    /\ futures = [k \in Kinds |-> <<>>]
    /\ request = NoRequest
    /\ PipelineOff
    /\ EngineNew

IndexCall ==
    /\ indexCalls < MaxIndexCalls
    /\ indexCalls' = indexCalls + 1
    /\ \E recs \in IndexInputs : index_analysis_results(recs)

SearchCall ==
    \E query \in Queries, top_k \in 0..MaxTopK, file_type \in FileTypes :
        /\ searchArgs' = [query |-> query, top_k |-> top_k, file_type |-> file_type,
                          called |-> TRUE]
        /\ searchRet' = search(query, top_k, file_type)
        /\ filterArgs' = NoFilterSearch
        /\ filterRet' = NoReturn
        /\ statsRet' = NoReturn
        /\ UNCHANGED <<engineVars, analysis_results, indexRet, indexCalls,
                       parseVars, batchVars, pipeVars, projVars>>

\* The filter sets of a search_with_filters call: none, a lower bound, an upper
\* bound (0.7 and 0.5 are written 7 and 5), an exact match, and two filters.
FilterSets ==
    {EmptyOD,
     [keys |-> <<"min_luxury_index">>, val |-> [min_luxury_index |-> JNum(7)]],
     [keys |-> <<"max_luxury_index">>, val |-> [max_luxury_index |-> JNum(5)]],
     [keys |-> <<"targeting_type">>, val |-> [targeting_type |-> JString("retargeting")]],
     [keys |-> <<"max_luxury_index", "music_intensity">>,
      val |-> [max_luxury_index |-> JNum(7), music_intensity |-> JString("high")]]}

FilterCall ==
    \E query \in Queries, filters \in FilterSets, top_k \in 0..MaxTopK :
        /\ filterArgs' = [query |-> query, filters |-> filters, top_k |-> top_k,
                          called |-> TRUE]
        /\ filterRet' = search_with_filters(query, filters, top_k)
        /\ searchArgs' = NoSearch
        /\ searchRet' = NoReturn
        /\ statsRet' = NoReturn
        /\ UNCHANGED <<engineVars, analysis_results, indexRet, indexCalls,
                       parseVars, batchVars, pipeVars, projVars>>

StatsCall ==
    /\ statsRet' = get_stats
    /\ searchArgs' = NoSearch
    /\ searchRet' = NoReturn
    /\ filterArgs' = NoFilterSearch
    /\ filterRet' = NoReturn
    /\ UNCHANGED <<engineVars, analysis_results, indexRet, indexCalls,
                   parseVars, batchVars, pipeVars, projVars>>

NextSearch == IndexCall \/ SearchCall \/ FilterCall \/ StatsCall

SpecSearch == InitSearch /\ [][NextSearch]_vars

\* ------------------------------------ specification: the text projection
\* create_embedding_text on its own, on records that score the first, a middle
\* and the last of the ten index fields.  A score is written in tenths.
Scores == {0, 1, 2, 5, 6, 10}

ScoredFields == {"luxury_index", "humor_index", "nostalgia_index"}

ProjectionInputs ==
    UNION {[fs -> {JNum(v) : v \in Scores}] : fs \in SUBSET ScoredFields}
    \cup {[f \in fs \cup {"music_intensity"} |->
               IF f = "music_intensity" THEN JString("medium") ELSE JNum(6)] :
           fs \in SUBSET ScoredFields}

InitProjection ==
    /\ ptext = <<>>
    /\ pfiles = <<>>
    /\ pout = NotParsed
    /\ orch = [k \in Kinds |-> IdleOrch]
    /\ futures = [k \in Kinds |-> <<>>]
    /\ request = NoRequest
    /\ PipelineOff
    /\ EngineNew

ProjectCall ==
    \E data \in ProjectionInputs :
        /\ projInput' = data
        /\ projected' = create_embedding_text(data)
        /\ UNCHANGED <<engineVars, analysis_results, indexRet, indexCalls,
                       searchArgs, searchRet, queryVars,
                       parseVars, batchVars, pipeVars>>

NextProjection == ProjectCall

SpecProjection == InitProjection /\ [][NextProjection]_vars

\* ================================================================ properties
\* What the model answered, read off the response itself: the JSON document of
\* the text, and the entry it holds for the item at position i (from 0).
DocPositions(text) == {n \in 1..Len(text) : text[n].tok = "doc"}

TheDoc(text) == text[CHOOSE n \in DocPositions(text) : TRUE].json

IsObjectDoc(text) == DocPositions(text) # {} /\ TheDoc(text).t = "object"

HasEntryAt(text, i) == IsObjectDoc(text) /\ DecimalDigits[i + 1] \in DOMAIN TheDoc(text).v

EntryAt(text, i) == TheDoc(text).v[DecimalDigits[i + 1]]

\* The mapping {F[i] -> R[str(i)]} of the index convention, for an object R.
IndexMapping(R, F) ==
    [f \in {F[i + 1] : i \in {n \in 0..(Len(F) - 1) : DecimalDigits[n + 1] \in DOMAIN R}} |->
        R[DecimalDigits[(CHOOSE n \in 0..(Len(F) - 1) : F[n + 1] = f) + 1]]]

\* The features of a preprocessing record: everything but the temp path.
FeatureKeys(rec) == DOMAIN rec \ {"_temp_file_path"}

KeepsFeatures(r, rec) == \A k \in FeatureKeys(rec) : k \in DOMAIN r /\ r[k] = rec[k]

BatchFiles(kind, j) == orch[kind].batches[j].filenames

BatchEnv(kind, j) == futures[kind][j].env

BatchIds(kind) == 1..Len(orch[kind].batches)

\* ---- C1
\* The media files among the members of the archive handed to the last call.
ArchiveMedia == {f \in Range(archive) : IsMediaName(f)}

Occurrences(keys, f) == Cardinality({n \in 1..Len(keys) : keys[n] = f})

\* main.py lines 320 and 338: a record with the model's structured analysis
HasStructured(r) == "targeting_type" \in DOMAIN r

HasMarker(r) == "error" \in DOMAIN r \/ "analysis_error" \in DOMAIN r

KindOf(f) == IF IsImageName(f) THEN "image" ELSE "video"

\* r is the preprocessing record pre (less the temp path, for a video) overlaid
\* with the analysis object a.
IsMerge(kind, r, pre, a) ==
    LET kept == IF kind = "video" THEN FeatureKeys(pre) ELSE DOMAIN pre
    IN /\ DOMAIN r = kept \cup DOMAIN a
       /\ \A k \in DOMAIN a : r[k] = a[k]
       /\ \A k \in kept \ DOMAIN a : r[k] = pre[k]

CallRaised(kind, j) == BatchEnv(kind, j).fail = "call"

\* The model answered every item of the batch with an analysis object.
AnsweredAll(kind, j) ==
    /\ BatchEnv(kind, j).fail = NoFailure
    /\ LET text == BatchEnv(kind, j).text
       IN /\ IsObjectDoc(text)
          /\ text \in {Plain(TheDoc(text)), FencedJson(TheDoc(text))}
          /\ \A i \in 0..(Len(BatchFiles(kind, j)) - 1) :
                HasEntryAt(text, i) /\ EntryAt(text, i).t = "object"

HasAnalysis(r, entry) ==
    /\ "analysis_error" \notin DOMAIN r
    /\ \A k \in DOMAIN entry.v : k \in DOMAIN r /\ r[k] = entry.v[k]

\* C3: in the mapping a batch_analyze_* call returns, every file of a batch whose
\* model call raised holds its preprocessing features plus analysis_error, and
\* every file of a batch the model answered in full holds its analysis.
C3_BatchIsolation ==
    \A kind \in Kinds :
        orch[kind].state = "returned" =>
            \A j \in BatchIds(kind) :
                /\ CallRaised(kind, j) =>
                      \A f \in Range(BatchFiles(kind, j)) :
                          /\ f \in DOMAIN orch[kind].results
                          /\ KeepsFeatures(orch[kind].results[f], orch[kind].input.val[f])
                          /\ "analysis_error" \in DOMAIN orch[kind].results[f]
                          /\ "targeting_type" \notin DOMAIN orch[kind].results[f]
                /\ AnsweredAll(kind, j) =>
                      \A i \in 0..(Len(BatchFiles(kind, j)) - 1) :
                          LET f == BatchFiles(kind, j)[i + 1]
                          IN /\ f \in DOMAIN orch[kind].results
                             /\ HasAnalysis(orch[kind].results[f],
                                            EntryAt(BatchEnv(kind, j).text, i))

C3_Witness ==
    \E kind \in Kinds :
        /\ orch[kind].state = "returned"
        /\ \E j, k \in BatchIds(kind) :
              /\ CallRaised(kind, j)
              /\ Len(BatchFiles(kind, j)) = 2
              /\ AnsweredAll(kind, k)
              /\ EntryAt(BatchEnv(kind, k).text, 0).v = AnalysisFull

\* ---- C4
\* C4: no failure in the processing of one batch leaves batch_analyze_*: the
\* call never ends by raising.
C4_NeverRaises == \A kind \in Kinds : orch[kind].state # "raised"

\* ---- C5
\* C5: when the response is an object that lacks, or holds something unusable
\* at, one expected index, only the file at that index is marked: every other
\* file of the batch whose index holds an analysis object keeps its structured
\* result.
C5_OnlyTheGapIsMarked ==
    \A kind \in Kinds :
        orch[kind].state = "returned" =>
            \A j \in BatchIds(kind) :
                LET text == BatchEnv(kind, j).text
                IN (BatchEnv(kind, j).fail = NoFailure /\ IsObjectDoc(text)
                        /\ text = Plain(TheDoc(text))) =>
                    \A i \in 0..(Len(BatchFiles(kind, j)) - 1) :
                        LET f == BatchFiles(kind, j)[i + 1]
                        IN /\ f \in DOMAIN orch[kind].results
                           /\ (HasEntryAt(text, i) /\ EntryAt(text, i).t = "object") =>
                                 HasAnalysis(orch[kind].results[f], EntryAt(text, i))

\* ---- C8
\* No JSON document can be read from the text.
Unparseable(text) ==
    \/ DocPositions(text) = {}
    \/ \E n \in 1..Len(text) : text[n].tok = "junk"

\* C8: for a response text that is not parseable, the reconciler returns the
\* empty mapping and reports the parse error, and every file of the batch ends
\* with its features, an analysis_error marker and no structured field.
C8_UnparseableMarksAll ==
    \A kind \in Kinds :
        orch[kind].state = "returned" =>
            \A j \in BatchIds(kind) :
                (BatchEnv(kind, j).fail = NoFailure /\ Unparseable(BatchEnv(kind, j).text)) =>
                    /\ LET p == parse_batch_response(BatchEnv(kind, j).text, BatchFiles(kind, j))
                       IN ~p.raised /\ p.value = EmptyDict
                             /\ p.printed = "Error parsing Gemini response"
                    /\ \A f \in Range(BatchFiles(kind, j)) :
                          /\ f \in DOMAIN orch[kind].results
                          /\ KeepsFeatures(orch[kind].results[f], orch[kind].input.val[f])
                          /\ "analysis_error" \in DOMAIN orch[kind].results[f]
                          /\ orch[kind].results[f]["analysis_error"] = MissingAnalysis
                          /\ DOMAIN orch[kind].results[f] \cap DOMAIN AnalysisFull
                                \subseteq FeatureKeys(orch[kind].input.val[f])

C8_Witness ==
    \E kind \in Kinds :
        /\ orch[kind].state = "returned"
        /\ \E j \in BatchIds(kind) :
              /\ BatchEnv(kind, j).fail = NoFailure
              /\ Unparseable(BatchEnv(kind, j).text)
              /\ Len(BatchFiles(kind, j)) = 2

\* ---- C10
\* C10: in the returned mapping, the record of every file for which the model
\* gave an analysis object is the union of its preprocessing features and that
\* object, the object's value on every key of both.
C10_MergePrecedence ==
    \A kind \in Kinds :
        orch[kind].state = "returned" =>
            \A j \in BatchIds(kind) :
                LET text == BatchEnv(kind, j).text
                IN (BatchEnv(kind, j).fail = NoFailure /\ IsObjectDoc(text)
                        /\ text = Plain(TheDoc(text))) =>
                    \A i \in 0..(Len(BatchFiles(kind, j)) - 1) :
                        (HasEntryAt(text, i) /\ EntryAt(text, i).t = "object") =>
                            LET f == BatchFiles(kind, j)[i + 1]
                                r == orch[kind].results[f]
                                a == EntryAt(text, i).v
                                rec == orch[kind].input.val[f]
                                kept == IF kind = "video" THEN FeatureKeys(rec) ELSE DOMAIN rec
                            IN /\ DOMAIN r = kept \cup DOMAIN a
                               /\ \A k \in DOMAIN a : r[k] = a[k]
                               /\ \A k \in kept \ DOMAIN a : r[k] = rec[k]

\* ---- C11
\* C11: for both media kinds the key the prompt tells the model to use for item
\* i is the key the reconciler looks up, so in the mapping a batch_analyze_*
\* call returns, every file of a batch whose response follows the prompt
\* exactly holds a structured result.
C11_PromptKeysAreReconciled ==
    \A kind \in Kinds :
        orch[kind].state = "returned" =>
            \A j \in BatchIds(kind) :
                (BatchEnv(kind, j).fail = NoFailure
                    /\ BatchEnv(kind, j).text = PromptFollowingText(kind, BatchFiles(kind, j))) =>
                    \A i \in 0..(Len(BatchFiles(kind, j)) - 1) :
                        /\ PromptKey(kind, BatchFiles(kind, j), i) = IndexKey(i)
                        /\ BatchFiles(kind, j)[i + 1] \in DOMAIN orch[kind].results
                        /\ HasStructured(orch[kind].results[BatchFiles(kind, j)[i + 1]])
                        /\ ~HasMarker(orch[kind].results[BatchFiles(kind, j)[i + 1]])

\* ---- C12
\* A call of process_zip_file begins and, in the same step, runs its checks,
\* the cache lookup and the extraction.
CallStep == pc = "idle" /\ calls' = calls + 1

\* The call that begins ends at once, having extracted nothing, preprocessed
\* nothing, called no model and left the directory and the analysis file alone.
ShortCircuit ==
    /\ pc' = "idle"
    /\ extracted' = FALSE
    /\ results' = EmptyOD
    /\ \A kind \in Kinds : orch'[kind] = IdleOrch /\ futures'[kind] = <<>>
    /\ datasetDir' = datasetDir
    /\ artifact' = artifact
    /\ writes' = writes

\* C12 as claimed: whenever the analysis file of the dataset exists,
\* process_zip_file returns its content and extracts nothing, preprocesses
\* nothing, calls no model and leaves the directory and the file unchanged.
C12_CacheHitShortCircuit ==
    [][(CallStep /\ artifact.exists) =>
          /\ ShortCircuit
          /\ ~ret'.raised
          /\ ret'.value = artifact.content]_vars

\* C12 as amended: whenever process_zip_file is called with a valid zip file
\* and the analysis file of the dataset exists, it extracts nothing,
\* preprocesses nothing, calls no model and leaves the directory and the file
\* unchanged; it returns the mapping read from the file, or raises when the
\* file holds no whole JSON document.
C12_ValidZipCacheHit ==
    [][(CallStep /\ artifact.exists /\ IsZipFile(archive')) =>
          /\ ShortCircuit
          /\ IF artifact.complete
             THEN ~ret'.raised /\ ret'.value = artifact.content
             ELSE ret'.raised]_vars

C12_Witness ==
    /\ calls = 2
    /\ pc = "idle"
    /\ IsZipFile(archive)
    /\ results = EmptyOD
    /\ ~ret.raised
    /\ Len(ret.value.keys) = 2
    /\ artifact.exists
    /\ ret.value = artifact.content
    /\ writes = 1

\* ---- C13
\* C13: of two successive calls for the dataset, the first of which returned,
\* the second runs no model pipeline and returns output identical to the
\* first call's output.
C13_SecondCallIdentical ==
    [][(CallStep /\ calls >= 1 /\ ~ret.raised /\ IsZipFile(archive) /\ IsZipFile(archive')) =>
          /\ pc' = "idle"
          /\ \A kind \in Kinds : orch'[kind] = IdleOrch
          /\ ret' = ret]_vars

\* ---- C14
\* C14: over every sequence and interleaving of process_zip_file calls for the
\* dataset, its analysis file is written at most once.
C14_AtMostOneWrite == writes <= 1

\* ---- C15
\* C15: in every reachable state the analysis file of the dataset either does
\* not exist or holds the complete final mapping of a finished run.
C15_ArtifactNeverPartial == artifact.exists => artifact.complete

\* ---- C16
\* Every batch of the kind has completed and been collected (a kind without
\* files has none).
KindCompleted(kind) ==
    /\ orch[kind].state \in {"returned", "skipped"}
    /\ \A j \in 1..Len(futures[kind]) : futures[kind][j].state = "collected"

\* C16: in every run, a write of the analysis file is preceded by the
\* completion of every image batch and every video batch.
C16_WriteAfterOrchestration ==
    [][artifact' # artifact => \A kind \in Kinds : KindCompleted(kind)]_vars

C16_Witness ==
    /\ pc = "idle"
    /\ writes = 1
    /\ artifact.exists
    /\ artifact.complete
    /\ \E f, g \in Range(artifact.content.keys) :
          /\ IsImageName(f) /\ HasStructured(artifact.content.val[f])
          /\ IsVideoName(g) /\ HasStructured(artifact.content.val[g])

\* ---- C17
\* The call that begins extracts the zip file, in whole or until extractall
\* raises.
Extracts ==
    \/ extracted'
    \/ pc' = "idle" /\ ret'.raised /\ ret'.exc = "BadZipFile"

\* C17: on a cache miss the zip file is extracted unless the dataset directory
\* already exists and is non-empty; a directory that exists but is empty is
\* extracted into again.
C17_EmptyDirectoryReExtracted ==
    [][(CallStep /\ IsZipFile(archive') /\ ~artifact.exists) =>
          (Extracts <=> ~(datasetDir.exists /\ Len(datasetDir.files) > 0))]_vars

\* ---- C18
\* C18: a file that is no valid zip file makes process_zip_file raise at once,
\* with no dataset directory created and nothing written.
C18_NotAZipFailsFirst ==
    [][(CallStep /\ archive' = NotAZip) =>
          /\ ret'.raised
          /\ ret'.exc = "ValueError"
          /\ pc' = "idle"
          /\ datasetDir' = datasetDir
          /\ artifact' = artifact
          /\ writes' = writes]_vars

C18_Witness ==
    /\ calls >= 1
    /\ archive = NotAZip
    /\ pc = "idle"
    /\ ret.raised
    /\ ret.exc = "ValueError"
    /\ ~datasetDir.exists
    /\ ~artifact.exists

\* ---- C19
\* C19: a call that extracted a valid zip file holding no media file ends in
\* error, and no analysis file is persisted for the dataset.
C19_EmptyArchiveFails ==
    (pc = "idle" /\ calls > 0 /\ extracted /\ IsZipFile(archive) /\ ArchiveMedia = {}) =>
        ret.raised /\ ~artifact.exists

\* ---- C20
\* C20: when the write of the analysis file fails, process_zip_file ends in
\* error and does not return the in-memory mapping.
C20_WriteFailureRaises ==
    [][(pc = "videos-run" /\ pc' = "idle" /\ KindCompleted("video")
            /\ ~(artifact'.exists /\ artifact'.complete)) =>
          ret'.raised]_vars

C20_Witness ==
    /\ pc = "idle"
    /\ ret.raised
    /\ ret.exc = "OSError"
    /\ Len(results.keys) > 0
    /\ \E f \in Range(results.keys) : HasStructured(results.val[f])

\* ---- C21
\* The batches of the kind whose worker is running: submitted, not yet done.
InFlightCount(kind) ==
    Cardinality({j \in 1..Len(futures[kind]) : futures[kind][j].state = "inflight"})

\* C21: the number of batches of one media kind in flight at the same time
\* never exceeds a configured maximum, MaxInFlight, that is set independently
\* of the number of batches of the call.
C21_InFlightCapped == \A kind \in Kinds : InFlightCount(kind) <= MaxInFlight

\* ---- C22
\* C22: the image pipeline and the video pipeline of one run are dispatched
\* independently of each other: while batches of one kind are in flight, the
\* other kind, when it has files to analyse, has been dispatched too and does
\* not wait for them.
C22_KindsDispatchedTogether ==
    \A kind, other \in Kinds :
        (InFlightCount(kind) > 0 /\ CountedFiles(other, results) # {}) =>
            OrchestrationStarted(other)

\* ---- C23
\* The batches of the kind whose outcome as_completed has handed to the merge.
Collected(kind) ==
    {j \in 1..Len(futures[kind]) : futures[kind][j].state = "collected"}

BatchOf(kind, f) == CHOOSE j \in BatchIds(kind) : f \in Range(BatchFiles(kind, j))

\* The mapping the outcomes of the batches in S make: each file of a batch in S
\* with the record its own batch's worker returned for it.
OutcomesOf(kind, S) ==
    [f \in UNION {Range(BatchFiles(kind, j)) : j \in S} |->
        Outcome(kind, BatchOf(kind, f)).value[f]]

\* C23: the merged result of a media kind does not depend on the order in which
\* the batches complete: at every point of the merge, and when the call
\* returns, the result is the mapping made of the outcomes of the batches
\* merged so far, in whichever order they were merged.
C23_MergeOrderIndependent ==
    \A kind \in Kinds :
        orch[kind].state \in {"collecting", "returned"} =>
            orch[kind].results = OutcomesOf(kind, Collected(kind))

\* The last batch is merged first, the second next, and the first is still running.
C23_Witness ==
    \E kind \in Kinds :
        /\ orch[kind].state = "collecting"
        /\ Len(orch[kind].batches) = 3
        /\ futures[kind][3].state = "collected"
        /\ futures[kind][2].state = "collected"
        /\ futures[kind][1].state = "inflight"
        /\ futures[kind][3].env.fail = "call"
        /\ AnsweredAll(kind, 2)
        /\ DOMAIN orch[kind].results = {BatchFiles(kind, 2)[1], BatchFiles(kind, 3)[1]}

\* ---- C24
\* C24: a model call that never returns does not stop the run: its batch is
\* eventually treated as failed, so every batch_analyze_* call that has
\* dispatched its batches eventually returns (or raises).
C24_CallEventuallyEnds ==
    \A kind \in Kinds :
        (orch[kind].state = "collecting") ~> (orch[kind].state \in {"returned", "raised"})

\* ---- C25
\* The files of the input whose preprocessing record carries an error field.
FailedInputs(kind) ==
    {f \in Range(orch[kind].input.keys) : "error" \in DOMAIN orch[kind].input.val[f]}

\* C25: a preprocessing record with an error field is left out of all batching:
\* no batch of either kind holds such a file, so no model call is made for it,
\* and the call returns no record for it.
C25_ErrorRecordsNeverBatched ==
    \A kind \in Kinds :
        /\ \A j \in BatchIds(kind) : Range(BatchFiles(kind, j)) \cap FailedInputs(kind) = {}
        /\ Len(futures[kind]) = Len(orch[kind].batches)
        /\ DOMAIN orch[kind].results \cap FailedInputs(kind) = {}

C25_Witness ==
    \E kind \in Kinds :
        /\ orch[kind].state = "returned"
        /\ Len(orch[kind].batches) = 1
        /\ Len(BatchFiles(kind, 1)) = 2
        /\ \E f \in FailedInputs(kind) :
              KindOf(f) = kind /\ orch[kind].input.keys[2] = f
        /\ DOMAIN orch[kind].results = Range(BatchFiles(kind, 1))

\* ---- C26
\* C26: a preprocessing-stage error record is passed through untouched: when
\* process_zip_file returns, every file whose preprocessing failed is once a
\* key of the returned and of the persisted mapping, with exactly the
\* {error, status: "failed"} record made at preprocessing.
C26_ErrorRecordPassedThrough ==
    [][(pc = "videos-run" /\ pc' = "idle" /\ ~ret'.raised) =>
          \A f \in Range(results.keys) :
              "error" \in DOMAIN results.val[f] =>
                  /\ results.val[f] = ErrorRecord
                  /\ Occurrences(ret'.value.keys, f) = 1
                  /\ ret'.value.val[f] = ErrorRecord
                  /\ artifact'.content.val[f] = ErrorRecord]_vars

C26_Witness ==
    /\ pc = "idle"
    /\ calls = 1
    /\ ~ret.raised
    /\ artifact.complete
    /\ Len(ret.value.keys) = 3
    /\ \E f, g \in Range(ret.value.keys) :
          /\ IsImageName(f) /\ ret.value.val[f] = ErrorRecord
          /\ artifact.content.val[f] = ErrorRecord
          /\ IsVideoName(g) /\ ret.value.val[g] = ErrorRecord

\* ---- C27
\* The filtered filename list of the call: the keys of the input mapping, in
\* its insertion order, whose record the kind's filter keeps.
Filtered(kind) ==
    SelectSeq(orch[kind].input.keys,
              LAMBDA k : Eligible(kind, k, orch[kind].input.val[k]))

\* C27: batch i (from 0) holds exactly the files at positions
\* [i*batch_size, (i+1)*batch_size) of the filtered filename list, in that
\* order, and that order is the order of the items of the batch's prompt and
\* the filename list the reconciler maps the indices back with.
C27_BatchIsSliceInOrder ==
    \A kind \in Kinds :
        orch[kind].state # "idle" =>
            \A j \in BatchIds(kind) :
                LET b == orch[kind].batch_size
                    i == j - 1
                    F == Filtered(kind)
                    batch_filenames == BatchFiles(kind, j)
                IN /\ orch[kind].batches[j].num = i + 1
                   /\ i * b < Len(F)
                   /\ Len(batch_filenames) = Min((i + 1) * b, Len(F)) - i * b
                   /\ \A k \in 1..Len(batch_filenames) : batch_filenames[k] = F[i * b + k]
                   /\ PromptItems(BatchData(orch[kind].input, batch_filenames))
                         = batch_filenames
                   /\ ExpectedFilenames(orch[kind].batches[j]) = batch_filenames

C27_Witness ==
    \E kind \in Kinds :
        /\ orch[kind].state = "collecting"
        /\ orch[kind].batch_size = 2
        /\ orch[kind].input.keys = <<"e.png", "a.png", "B.PNG">>
        /\ Len(orch[kind].batches) = 2
        /\ BatchFiles(kind, 1) = <<"e.png", "a.png">>
        /\ BatchFiles(kind, 2) = <<"B.PNG">>

\* ---- C28
\* The last index_analysis_results call returned.
IndexReturned == indexCalls > 0 /\ ~indexRet.raised

\* The filenames of the last call's records that carry neither an error nor an
\* analysis_error field, in the records' iteration order.
CleanFilenames ==
    SelectSeq(analysis_results.keys,
              LAMBDA k : /\ "error" \notin DOMAIN analysis_results.val[k]
                         /\ "analysis_error" \notin DOMAIN analysis_results.val[k])

\* C28: after index_analysis_results(records) has returned, the index holds
\* exactly one entry, and one embedding, per record that has neither an error
\* nor an analysis_error field, in the records' iteration order, and no entry
\* for a record that has one of those fields.
C28_OneEntryPerCleanRecord ==
    IndexReturned =>
        /\ indexed
        /\ Len(metadata) = Len(CleanFilenames)
        /\ Len(embeddings) = Len(CleanFilenames)
        /\ \A i \in 1..Len(CleanFilenames) :
              /\ metadata[i].filename = CleanFilenames[i]
              /\ metadata[i].analysis_data = analysis_results.val[CleanFilenames[i]]

C28_Witness ==
    /\ IndexReturned
    /\ analysis_results.keys = <<"notes.txt", "a.png", "D.MP4">>
    /\ "error" \in DOMAIN analysis_results.val["a.png"]
    /\ Len(metadata) = 2
    /\ metadata[1].filename = "notes.txt"
    /\ metadata[2].filename = "D.MP4"

\* ---- C29
\* C29: re-indexing fully replaces the prior index: after any sequence of
\* index_analysis_results calls, an engine that answers searches holds nothing
\* kept from an earlier call: every entry is made from a record of the last
\* call, and the embeddings are those of the entries, one per entry and each
\* the embedding of its entry's text.
C29_ReindexReplaces ==
    indexed =>
        /\ Len(embeddings) = Len(metadata)
        /\ \A i \in 1..Len(metadata) :
              /\ metadata[i].filename \in Range(analysis_results.keys)
              /\ metadata[i].analysis_data = analysis_results.val[metadata[i].filename]
              /\ embeddings[i] = Encode(metadata[i].search_text)

\* ---- C30
\* The position in the index of the entry a result was made from.
PositionOf(result) == CHOOSE i \in 1..Len(metadata) : metadata[i].filename = result.filename

\* The entries a search looks at: those with an embedding, of the file type asked for.
Candidates ==
    {i \in 1..Min(Len(embeddings), Len(metadata)) :
        searchArgs.file_type # "" => metadata[i].file_type = searchArgs.file_type}

\* C30: search(query, top_k, file_type) returns at most top_k entries, the
\* top_k most similar of the indexed entries of the file type asked for (of
\* all of them when none is asked for), each with its cosine similarity to the
\* query, ordered by similarity descending, entries of equal similarity in
\* their indexing order.
C30_SearchRanksStably ==
    (searchArgs.called /\ ~searchRet.raised) =>
        LET r == searchRet.value
            q == Encode(searchArgs.query)
        IN /\ Len(r) = Min(searchArgs.top_k, Cardinality(Candidates))
           /\ \A n \in 1..Len(r) :
                 /\ PositionOf(r[n]) \in Candidates
                 /\ r[n].file_type = metadata[PositionOf(r[n])].file_type
                 /\ r[n].similarity = Cosine(embeddings[PositionOf(r[n])], q)
           /\ \A n, m \in 1..Len(r) :
                 n < m =>
                     /\ SimGE(r[n].similarity, r[m].similarity)
                     /\ SimEq(r[n].similarity, r[m].similarity) =>
                           PositionOf(r[n]) < PositionOf(r[m])
           /\ \A i \in Candidates :
                 (\A n \in 1..Len(r) : PositionOf(r[n]) # i) =>
                     \A n \in 1..Len(r) :
                         /\ SimGE(r[n].similarity, Cosine(embeddings[i], q))
                         /\ SimEq(r[n].similarity, Cosine(embeddings[i], q)) =>
                               PositionOf(r[n]) < i

\* Three entries are indexed, the least similar first; the two most similar are
\* of equal similarity and come back in their indexing order.
C30_Witness ==
    /\ searchArgs.called
    /\ ~searchRet.raised
    /\ searchArgs.top_k = 2
    /\ searchArgs.file_type = ""
    /\ Len(metadata) = 3
    /\ metadata[1].filename = "notes.txt"
    /\ Len(searchRet.value) = 2
    /\ searchRet.value[1].filename = metadata[2].filename
    /\ searchRet.value[2].filename = metadata[3].filename
    /\ SimEq(searchRet.value[1].similarity, searchRet.value[2].similarity)

\* ---- C31
\* The value of a scored field of a result's analysis, 0 when the field is absent.
ValueOrZero(data, index_name) ==
    IF index_name \in DOMAIN data THEN data[index_name] ELSE [t |-> "number", v |-> 0]

\* A result's analysis satisfies the filter filter_key: bound.
Satisfies(data, filter_key, bound) ==
    LET index_name == SubSeq(filter_key, 5, Len(filter_key))
    IN IF SubSeq(filter_key, 1, 4) = "min_"
       THEN /\ ValueOrZero(data, index_name).t = "number"
            /\ ValueOrZero(data, index_name).v >= bound.v
       ELSE IF SubSeq(filter_key, 1, 4) = "max_"
       THEN /\ ValueOrZero(data, index_name).t = "number"
            /\ ValueOrZero(data, index_name).v <= bound.v
       ELSE /\ filter_key \in DOMAIN data
            /\ data[filter_key].t = bound.t
            /\ data[filter_key].v = bound.v

\* The 50 highest-ranked entries for the query of the last search_with_filters call.
Pool == search(filterArgs.query, 50, "").value

PoolPosition(result) == CHOOSE i \in 1..Len(Pool) : Pool[i].filename = result.filename

\* C31: every result returned by search_with_filters with a non-empty filter
\* set satisfies every filter (min_X: the value of X, 0 when absent, is >= the
\* bound; max_X: it is <= the bound; otherwise the value equals the filter's),
\* and the results are a subsequence of the 50 highest-ranked entries for the
\* query, in their rank order.
C31_ResultsSatisfyFilters ==
    (filterArgs.called /\ ~filterRet.raised /\ Len(filterArgs.filters.keys) > 0) =>
        LET r == filterRet.value
            filters == filterArgs.filters
        IN /\ \A n \in 1..Len(r) : \A k \in 1..Len(filters.keys) :
                 Satisfies(r[n].analysis, filters.keys[k], filters.val[filters.keys[k]])
           /\ \A n \in 1..Len(r) :
                 /\ \E i \in 1..Len(Pool) : Pool[i].filename = r[n].filename
                 /\ r[n] = Pool[PoolPosition(r[n])]
           /\ \A n, m \in 1..Len(r) : n < m => PoolPosition(r[n]) < PoolPosition(r[m])

\* The entry most similar to the query is above the upper bound and left out;
\* the two others come back in their rank order.
C31_Witness ==
    /\ filterArgs.called
    /\ ~filterRet.raised
    /\ filterArgs.filters.keys = <<"max_luxury_index">>
    /\ filterArgs.top_k = 2
    /\ Len(metadata) = 3
    /\ Len(embeddings) = 3
    /\ metadata[2].filename = "D.MP4"
    /\ Pool[1].filename = "D.MP4"
    /\ Len(filterRet.value) = 2
    /\ filterRet.value[1].filename = metadata[1].filename
    /\ filterRet.value[2].filename = metadata[3].filename

\* ---- C39
\* C39: for every top_k >= 0 and every filter set, empty or not,
\* search_with_filters returns at most top_k results.
C39_AtMostTopK ==
    (filterArgs.called /\ ~filterRet.raised) =>
        Len(filterRet.value) <= filterArgs.top_k

\* ---- C33
\* get_stats has been called since the engine was last indexed or searched.
StatsCalled == statsRet.raised \/ statsRet.printed # "not called"

\* The indexed entries whose filename ends in .mp4, whatever the case.
VideoEntries ==
    {i \in 1..Len(metadata) :
        LET name == Lower(metadata[i].filename)
        IN Len(name) >= 4 /\ SubSeq(name, Len(name) - 3, Len(name)) = ".mp4"}

\* C33: after any indexing, get_stats reports total_files equal to the number
\* of indexed entries, total_videos the number of entries whose filename ends
\* in .mp4 (case-insensitive) and total_images the number of the others, so
\* that total_files = total_videos + total_images.
C33_StatsCountEntries ==
    (indexed /\ StatsCalled) =>
        /\ ~statsRet.raised
        /\ statsRet.value.total_files = Len(metadata)
        /\ statsRet.value.total_videos = Cardinality(VideoEntries)
        /\ statsRet.value.total_images = Len(metadata) - Cardinality(VideoEntries)
        /\ statsRet.value.total_files
              = statsRet.value.total_videos + statsRet.value.total_images

\* ---- C40
\* C40: the search engine's error states are values, not crashes: before any
\* indexing, search raises its 'not indexed' error and get_stats returns
\* {"error": "Not indexed"}; after index_analysis_results has returned on any
\* input, an empty mapping or one of error records only included, search
\* returns a list and get_stats returns counts, and neither raises.
C40_ErrorStatesAreValues ==
    /\ (indexCalls = 0 /\ searchArgs.called) =>
           searchRet.raised /\ searchRet.exc = "ValueError: not indexed"
    /\ (indexCalls = 0 /\ StatsCalled) =>
           ~statsRet.raised /\ DOMAIN statsRet.value = {"error"}
                            /\ statsRet.value.error = "Not indexed"
    /\ (IndexReturned /\ searchArgs.called) => ~searchRet.raised
    /\ (IndexReturned /\ StatsCalled) =>
           ~statsRet.raised /\ "total_files" \in DOMAIN statsRet.value

\* ---- C32
ProjectCalled == projected.raised \/ projected.printed # "not called"

\* Where a phrase starts in a text.
PhraseStarts(text, phrase) ==
    {n \in 1..(Len(text) - Len(phrase) + 1) :
        SubSeq(text, n, n + Len(phrase) - 1) = phrase}

\* The score of the i-th index field in the projected record, 0 when absent.
ScoreOf(i) ==
    IF IndexFields[i] \in DOMAIN projInput THEN projInput[IndexFields[i]].v ELSE 0

\* Where the phrases of the i-th index field start in the projected text.
FieldStarts(i) ==
    PhraseStarts(projected.value, StrongPhrase[IndexFields[i]])
        \cup PhraseStarts(projected.value, WeakPhrase[IndexFields[i]])

\* C32: for each of the ten scored index fields, create_embedding_text
\* contributes the field's strong phrase when the value is >= 0.6, its weak
\* phrase when the value is >= 0.2 and < 0.6, and no phrase when the value is
\* < 0.2 or the field is absent; the phrases appear once and in the fixed field
\* order.
C32_ProjectionThresholds ==
    (ProjectCalled /\ ~projected.raised) =>
        /\ \A i \in 1..Len(IndexFields) :
              /\ Cardinality(PhraseStarts(projected.value, StrongPhrase[IndexFields[i]]))
                    = (IF ScoreOf(i) >= 6 THEN 1 ELSE 0)
              /\ Cardinality(PhraseStarts(projected.value, WeakPhrase[IndexFields[i]]))
                    = (IF ScoreOf(i) >= 2 /\ ScoreOf(i) < 6 THEN 1 ELSE 0)
        /\ \A i, j \in 1..Len(IndexFields) :
              i < j => \A n \in FieldStarts(i), m \in FieldStarts(j) : n < m

\* A record at both thresholds: the first field exactly 0.6, the last exactly
\* 0.2, a middle field below 0.2.
C32_Witness ==
    /\ ProjectCalled
    /\ ~projected.raised
    /\ DOMAIN projInput = {"luxury_index", "humor_index", "nostalgia_index"}
    /\ projInput["luxury_index"].v = 6
    /\ projInput["humor_index"].v = 1
    /\ projInput["nostalgia_index"].v = 2
    /\ PhraseStarts(projected.value, StrongPhrase["luxury_index"]) # {}
    /\ PhraseStarts(projected.value, WeakPhrase["nostalgia_index"]) # {}

\* ---- C35
\* The request of batch j of the kind's call has been sent to the model.
RequestSent(kind, j) ==
    /\ futures[kind][j].state \in {"done", "collected"}
    /\ futures[kind][j].env.fail \notin {"handle", "prompt"}

\* C35: for every batch sent to the model, the request carries exactly one
\* media attachment per batch item and the k-th attachment is the media of
\* filenames[k], also when reading one of the batch's media files fails.
C35_OneAttachmentPerItem ==
    \A kind \in {"image", "video"} : \A j \in 1..Len(futures[kind]) :
        RequestSent(kind, j) =>
            LET filenames == orch[kind].batches[j].filenames
                parts == ContentParts(kind, filenames, futures[kind][j].env)
            IN /\ Len(parts) = Len(filenames)
               /\ \A k \in 1..Len(filenames) : parts[k] = filenames[k]

\* ---- C37
\* No record of the mapping holds the transient local-path key.
NoTempPath(mapping) ==
    \A k \in 1..Len(mapping.keys) :
        "_temp_file_path" \notin DOMAIN mapping.val[mapping.keys[k]]

\* C37: no record of the final mapping returned or persisted by
\* process_zip_file contains the key _temp_file_path, for image files as well
\* as for video files, and on success as well as on batch failure.
C37_NoTempPathInFinalMapping ==
    /\ ~ret.raised => NoTempPath(ret.value)
    /\ artifact.complete => NoTempPath(artifact.content)

\* ---- C34
\* C34: side-effect order at the end of a run: the final mapping is persisted
\* as the analysis artifact first, and the transient compressed-media files
\* are removed only afterwards.
C34_PersistBeforeCleanUp ==
    \A i \in 1..Len(effects) :
        effects[i].op = "cleanup" =>
            \E j \in 1..(i - 1) : effects[j].op = "persist"

\* ---- C36
\* The call has run to its end and returned the mapping it persisted.
RunCompleted ==
    /\ pc = "idle"
    /\ calls > 0
    /\ ~ret.raised
    /\ \E i \in 1..Len(effects) : effects[i].op = "persist"

\* C36: after a run that completes, no transient compressed-media file created
\* by that run remains in the dataset directory, wherever in the directory the
\* original media file is located (dataset root, images/, videos/).
C36_NoCompressedFileRemains ==
    RunCompleted =>
        \A i \in 1..Len(effects) :
            effects[i].op = "compress" => effects[i].file \notin datasetDir.compressed

\* ---- C38
\* The filename key set of a fresh run on the zip file: its media members that
\* the walk does not skip.
FreshKeys(a) ==
    {a[i] : i \in {n \in 1..Len(a) :
                     /\ SubSeq(a[n], 1, 1) # "."
                     /\ Lower(SubSeq(a[n], Len(a[n]) - 3, Len(a[n]))) \in {".png", ".mp4"}}}

\* The call resumed on the non-empty directory an earlier call on the same zip
\* file left without an analysis file, and has run to its end.
ResumedRunCompleted ==
    /\ RunCompleted
    /\ calls > 1
    /\ ~extracted
    /\ datasetDir.source = archive
    /\ Len(datasetDir.files) > 0

\* C38: a run that resumes on a dataset directory left by an earlier run that
\* stopped at any point before persisting the artifact returns a mapping with
\* the same filename key set as a fresh run on the same archive.
C38_ResumedRunSameKeys ==
    ResumedRunCompleted => Range(ret.value.keys) = FreshKeys(archive)

\* ---- C6
\* The response is a JSON object, as json.loads sees it after the clean-up.
ParsedObject == JsonLoads(CleanResponse(ptext))

\* C6: for every filename list F and every parsed response object R,
\* parse_batch_response returns exactly {F[i] -> R[str(i)]} over the indices i
\* whose key is in R; other keys of R are ignored, other filenames omitted.
C6_IndexRoundTrip ==
    (pout # NotParsed /\ ParsedObject.ok /\ ParsedObject.value.t = "object") =>
        /\ ~pout.raised
        /\ pout.value = IndexMapping(ParsedObject.value.v, pfiles)

C6_Witness ==
    /\ pout # NotParsed
    /\ ~pout.raised
    /\ Len(pfiles) = 3
    /\ IsObjectDoc(ptext)
    /\ ptext = Plain(TheDoc(ptext))
    /\ DOMAIN TheDoc(ptext).v = {"0", "2", "video_0"}
    /\ TheDoc(ptext).v["0"] # TheDoc(ptext).v["2"]
    /\ DOMAIN pout.value = {pfiles[1], pfiles[3]}

\* ---- C7
\* C7: parse_batch_response never raises, whatever the response text.
C7_ParseNeverRaises == ~pout.raised

\* ---- C9
IsFencedObject(text, forms) ==
    /\ IsObjectDoc(text)
    /\ \E form \in forms :
          \/ form = "json" /\ text = FencedJson(TheDoc(text))
          \/ form = "json-open" /\ text = FencedJsonOpen(TheDoc(text))
          \/ form = "bare" /\ text = FencedBare(TheDoc(text))
          \/ form = "ws-json" /\ text = WsFencedJson(TheDoc(text))
          \/ form = "ws-bare" /\ text = WsFencedBare(TheDoc(text))

\* C9 as claimed: a JSON object wrapped in fence markers, with or without the
\* language tag and with or without leading whitespace, is parsed to the same
\* mapping as the object alone.
C9_EveryFenceStripped ==
    (pout # NotParsed /\ IsFencedObject(ptext, {"json", "bare", "ws-json", "ws-bare"})) =>
        /\ ~pout.raised
        /\ pout.value = IndexMapping(TheDoc(ptext).v, pfiles)

\* C9 as amended: the wrapping is stripped exactly when the text begins with
\* the fence marker followed at once by the json tag; a fenced object without
\* the tag, or with whitespace before the fence, yields the empty mapping.
C9_JsonFencePrefixStripped ==
    pout # NotParsed =>
        /\ IsFencedObject(ptext, {"json", "json-open"}) =>
              ~pout.raised /\ pout.value = IndexMapping(TheDoc(ptext).v, pfiles)
        /\ IsFencedObject(ptext, {"bare", "ws-json", "ws-bare"}) =>
              ~pout.raised /\ pout.value = EmptyDict

C9_Witness ==
    /\ pout # NotParsed
    /\ ~pout.raised
    /\ IsFencedObject(ptext, {"json"})
    /\ Len(pfiles) = 2
    /\ DOMAIN pout.value = {pfiles[1], pfiles[2]}

====
